---- MODULE Spec2Model ----
(***************************************************************************)
(* A model of ffprog: the bounded ring buffer (array.rs), the ffmpeg       *)
(* progress stream parser and its consumer (ffmpeg.rs, main.rs) and the    *)
(* session snapshot codec (stats.rs).                                      *)
(*                                                                         *)
(* Each subsystem has its own specification over the shared variables;     *)
(* the variables of the other subsystems stay at their initial values.     *)
(***************************************************************************)
EXTENDS Integers, Sequences, FiniteSets, TLC

VARIABLES
    \* ---- array.rs ----
    arr,        \* the Array<T, N>: [N, buf, len]
    arrDefault, \* the value handed to Array::new (T::default() for Array::default)
    pushed,     \* history variable: every value handed to push, in call order
    arrRet,     \* the last value returned by first / last / as_slice
    \* ---- ffmpeg.rs: ProgressIter and the child process ----
    child,      \* ProgressIter.child: "Some" | "None" ("absent": no iterator yet)
    proc,       \* the ffmpeg process as the operating system sees it
    ipc,        \* where the iterator is: "absent" | "idle" | "reading" | "gone"
    acc,        \* the local `progress` of the running next() call
    iret,       \* what the last next() call returned
    stream,     \* history variable: the lines read_line has returned, by index
    emitted,    \* history variable: the records returned as Some(Ok(_))
    \* ---- main.rs: run / show_progress ----
    pc,         \* position of the consumer of the iterator
    history,    \* show_progress's history: Vec<(Duration, Progress)>
    timestamp,  \* show_progress's timestamp (start_time.elapsed() at the last record)
    result,     \* what show_progress / run returned
    \* ---- stats.rs: the snapshot codec ----
    session,    \* the Stats held in memory
    fs,         \* the snapshot files, by path
    savedOk,    \* history variable: the inputs whose last save succeeded
    loaded,     \* what the last load returned
    \* ---- values.rs: the views of show_progress ----
    fps_view,     \* show_progress's fps: SparklineValues [history, max, current]
    speed_view,   \* show_progress's speed: SparklineValues
    bitrate_view, \* show_progress's bitrate: ChartValues
                  \* [history, baseline, current, min, max]
    fpsFed,       \* history variable: every value handed to fps.update
    bitrateFed,   \* history variable: every value handed to bitrate.update
    spark,        \* what the last fps.create(area) made of an area width
    \* ---- main.rs: main and the rest of run ----
    args,       \* the flags of Args: [load_stats, save_stats, show_stats]
    term,       \* the terminal: "none" | "created" | "restored" | "stuck"
    ffprobe,    \* run's local `ffprobe`: the Format of the probe, or "none"
    shown,      \* the Stats handed to show_stats
    reported,   \* what main returned
    \* ---- main.rs: show_stats ----
    selection,      \* show_stats's local `selection`: the selected tab
    bitrate_stats,  \* show_stats's BitrateStats
    fps_stats,      \* show_stats's OneLineStats of the frame rate
    speed_stats,    \* show_stats's OneLineStats of the speed
    chart,          \* the chart the last draw rendered
    event           \* what the last event::read returned

arrVars == <<arr, arrDefault, pushed, arrRet>>
iterVars == <<child, proc, ipc, acc, iret, stream, emitted>>
runVars == <<pc, history, timestamp, result>>
codecVars == <<session, fs, savedOk, loaded>>
valVars == <<fps_view, speed_view, bitrate_view, fpsFed, bitrateFed, spark>>
mainVars == <<args, term, ffprobe, shown, reported>>
statVars == <<selection, bitrate_stats, fps_stats, speed_stats, chart, event>>

otherThanArray == <<statVars, iterVars, runVars, codecVars, valVars, mainVars>>
otherThanRun == <<statVars, arrVars, codecVars, valVars, mainVars>>
otherThanRunAndViews == <<statVars, arrVars, codecVars, mainVars>>
otherThanRunAndProbe == <<statVars, arrVars, codecVars, valVars, args, term, shown, reported>>
otherThanCodec == <<statVars, arrVars, iterVars, runVars, valVars, mainVars>>
otherThanValues == <<statVars, arrVars, iterVars, runVars, codecVars, mainVars>>

vars == <<arr, arrDefault, pushed, arrRet,
          child, proc, ipc, acc, iret, stream, emitted,
          pc, history, timestamp, result,
          session, fs, savedOk, loaded,
          fps_view, speed_view, bitrate_view, fpsFed, bitrateFed, spark,
          args, term, ffprobe, shown, reported,
          selection, bitrate_stats, fps_stats, speed_stats, chart, event>>

(***************************************************************************)
(* Bounds of the model                                                     *)
(***************************************************************************)
MaxCap == 3
MaxVal == 2
MaxPush == 5
MaxLines == 3
MaxTime == 2
MaxHist == 2
\* Field lines of one block.
MaxFields == 4
\* The windows of the views, scaled down: SparkCap stands for the 500 of
\* SparklineValues.history, ChartCap for the 1000 of ChartValues.history.
SparkCap == 2
ChartCap == 3
MaxUpdates == 5
MaxY == 2
\* The widest area handed to SparklineValues::create.
MaxWidth == 4

(***************************************************************************)
(* array.rs                                                                *)
(***************************************************************************)
\* The element type T of the model and its T::default().
T == 0..MaxVal
TDefault == 0

\* Array::new: buf: [default; N], len: 0.  Slot i of buf is buf[i + 1].
ArrayNew(N, default) == [N |-> N, buf |-> [i \in 1..N |-> default], len |-> 0]

\* Array::default: buf: [Default::default(); N], len: Default::default().
ArrayDefault(N) == [N |-> N, buf |-> [i \in 1..N |-> TDefault], len |-> 0]

\* A push that starts the buffer over when it is full.
push_restart(a, value) ==
    IF a.N = 0 THEN a
    ELSE IF a.N = 1 THEN [a EXCEPT !.buf[1] = value, !.len = 1]
    ELSE IF a.len < a.N
         THEN [a EXCEPT !.buf[a.len + 1] = value, !.len = a.len + 1]
         ELSE [a EXCEPT !.buf[1] = value, !.len = 1]

\* A push that appends below capacity but forgets to evict when full.
push_noevict(a, value) ==
    IF a.N = 0 THEN a
    ELSE IF a.N = 1 THEN [a EXCEPT !.buf[1] = value, !.len = 1]
    ELSE IF a.len < a.N
         THEN [a EXCEPT !.buf[a.len + 1] = value, !.len = a.len + 1]
         ELSE [a EXCEPT !.buf[a.N] = value]

\* Array::push.
push(a, value) ==
    IF a.N = 0 THEN a
    ELSE IF a.N = 1 THEN [a EXCEPT !.buf[1] = value, !.len = 1]
    ELSE IF a.len < a.N
         THEN [a EXCEPT !.buf[a.len + 1] = value, !.len = a.len + 1]
         ELSE \* copy_within(1..N, 0), then buf[N - 1] = value
              [a EXCEPT !.buf = [i \in 1..a.N |->
                                   IF i < a.N THEN a.buf[i + 1] ELSE value]]

\* Array::as_slice: &buf[..len].
as_slice(a) == SubSeq(a.buf, 1, a.len)

\* A first() that always reads slot 0 of the backing store.
first_nocheck(a) == IF a.N = 0 THEN TDefault ELSE a.buf[1]

\* Array::first for an element type whose T::default() is tdefault.
first_with(a, tdefault) ==
    IF a.N = 0 THEN tdefault
    ELSE IF a.len > 0 THEN a.buf[1] ELSE tdefault

\* Array::last for an element type whose T::default() is tdefault.
last_with(a, tdefault) ==
    IF a.N = 0 THEN tdefault
    ELSE IF a.len > 0 THEN a.buf[a.len] ELSE tdefault

\* Array::first on an Array<T, N> of the model's T.
first(a) == first_with(a, TDefault)

\* Array::last on an Array<T, N> of the model's T.
last(a) == last_with(a, TDefault)

InitArrayVars ==
    /\ \E N \in 0..MaxCap :
         \/ \E d \in T : arr = ArrayNew(N, d) /\ arrDefault = d
         \/ arr = ArrayDefault(N) /\ arrDefault = TDefault
    /\ pushed = <<>>
    /\ arrRet = [op |-> "none"]

\* The array of a specification that is about something else.
InitArrayIdle ==
    /\ arr = ArrayDefault(0)
    /\ arrDefault = TDefault
    /\ pushed = <<>>
    /\ arrRet = [op |-> "none"]

ArrPush ==
    /\ Len(pushed) < MaxPush
    /\ \E v \in T :
         /\ arr' = push(arr, v)
         /\ pushed' = Append(pushed, v)
    /\ UNCHANGED <<arrDefault, arrRet>>
    /\ UNCHANGED otherThanArray

ArrFirst ==
    /\ arrRet' = [op |-> "first", val |-> first(arr)]
    /\ UNCHANGED <<arr, arrDefault, pushed>>
    /\ UNCHANGED otherThanArray

ArrLast ==
    /\ arrRet' = [op |-> "last", val |-> last(arr)]
    /\ UNCHANGED <<arr, arrDefault, pushed>>
    /\ UNCHANGED otherThanArray

ArrAsSlice ==
    /\ arrRet' = [op |-> "as_slice", val |-> as_slice(arr)]
    /\ UNCHANGED <<arr, arrDefault, pushed>>
    /\ UNCHANGED otherThanArray

\* The last k elements of sequence s (all of s when k >= Len(s)).
LastN(s, k) == IF Len(s) <= k THEN s ELSE SubSeq(s, Len(s) - k + 1, Len(s))

Min2(a, b) == IF a <= b THEN a ELSE b

(* C1: after any sequence of pushes on a fresh Array of capacity N,
   as_slice() is the last min(n, N) pushed values, oldest first; it is empty
   for N = 0 and the single newest value for N = 1. *)
C1_SliceIsLastPushed ==
    /\ as_slice(arr) = LastN(pushed, Min2(Len(pushed), arr.N))
    /\ (arrRet.op = "as_slice" => Len(arrRet.val) <= arr.N)
    /\ (arr.N = 0 => as_slice(arr) = <<>>)
    /\ (arr.N = 1 /\ pushed # <<>> => as_slice(arr) = <<pushed[Len(pushed)]>>)

\* An eviction happened in a buffer of capacity >= 2.
C1_Witness ==
    /\ arr.N >= 2
    /\ Len(pushed) > arr.N
    /\ pushed[1] # pushed[Len(pushed)]
    /\ arrRet.op = "as_slice"
    /\ arrRet.val = as_slice(arr)

(* C2: first() and last() never fail: on an empty Array of any capacity
   (capacity 0 included, whatever was pushed) they return T::default(); on
   a non-empty Array first() is as_slice()[0] and last() is
   as_slice()[len - 1]. *)
C2_FirstLastTotal ==
    /\ first(arr) \in T
    /\ last(arr) \in T
    /\ (as_slice(arr) = <<>> => first(arr) = TDefault /\ last(arr) = TDefault)
    /\ (as_slice(arr) # <<>> =>
            /\ first(arr) = as_slice(arr)[1]
            /\ last(arr) = as_slice(arr)[Len(as_slice(arr))])

\* first() was called on a capacity-0 Array after pushes of non-default values.
C2_Witness ==
    /\ arr.N = 0
    /\ arrDefault # TDefault
    /\ Len(pushed) >= 2
    /\ pushed[1] # TDefault
    /\ arrRet.op = "first"
    /\ arrRet.val = TDefault

(***************************************************************************)
(* Text.  A str is a sequence of one-character strings.                    *)
(***************************************************************************)
Whitespace == {" ", "\t", "\n", "\r"}
Digits == {"0", "1", "2", "3", "4", "5", "6", "7", "8", "9"}

DigitVal(c) ==
    CASE c = "0" -> 0 [] c = "1" -> 1 [] c = "2" -> 2 [] c = "3" -> 3
      [] c = "4" -> 4 [] c = "5" -> 5 [] c = "6" -> 6 [] c = "7" -> 7
      [] c = "8" -> 8 [] c = "9" -> 9

RECURSIVE trim_start(_)
trim_start(s) ==
    IF s # <<>> /\ Head(s) \in Whitespace THEN trim_start(Tail(s)) ELSE s

RECURSIVE trim_end(_)
trim_end(s) ==
    IF s # <<>> /\ s[Len(s)] \in Whitespace
    THEN trim_end(SubSeq(s, 1, Len(s) - 1))
    ELSE s

\* str::trim.
trim(s) == trim_end(trim_start(s))

\* str::split_once(c): the text before and after the first c, or None.
split_once(s, c) ==
    LET at == {i \in 1..Len(s) : s[i] = c}
    IN  IF at = {} THEN [some |-> FALSE]
        ELSE LET i == CHOOSE j \in at : \A k \in at : j <= k
             IN  [some |-> TRUE,
                  l |-> SubSeq(s, 1, i - 1),
                  r |-> SubSeq(s, i + 1, Len(s))]

\* str::strip_suffix(suf).unwrap_or(s).
strip_suffix_or(s, suf) ==
    IF Len(s) >= Len(suf) /\ SubSeq(s, Len(s) - Len(suf) + 1, Len(s)) = suf
    THEN SubSeq(s, 1, Len(s) - Len(suf))
    ELSE s

RECURSIVE DigitsValue(_)
DigitsValue(s) ==
    IF s = <<>> THEN 0
    ELSE 10 * DigitsValue(SubSeq(s, 1, Len(s) - 1)) + DigitVal(s[Len(s)])

AllDigits(s) == \A i \in 1..Len(s) : s[i] \in Digits

RECURSIVE Pow10(_)
Pow10(n) == IF n = 0 THEN 1 ELSE 10 * Pow10(n - 1)

\* <u64 as FromStr>::from_str: an optional "+" and at least one digit, nothing
\* else.  (Texts of the model have at most 9 digits, so no overflow error.)
parse_u64(s) ==
    LET d == IF s # <<>> /\ Head(s) = "+" THEN Tail(s) ELSE s
    IN  IF d # <<>> /\ AllDigits(d)
        THEN [ok |-> TRUE, val |-> DigitsValue(d)]
        ELSE [ok |-> FALSE]

\* An f64 of the model is a decimal (-1)^neg * m / 10^f with no trailing zero
\* in the fraction.
RECURSIVE F64Norm(_)
F64Norm(x) ==
    IF x.f > 0 /\ x.m % 10 = 0
    THEN F64Norm([x EXCEPT !.m = x.m \div 10, !.f = x.f - 1])
    ELSE x

F64Zero == [neg |-> FALSE, m |-> 0, f |-> 0]

\* <f64 as FromStr>::from_str on plain decimal text: an optional sign, digits
\* with an optional "." among them, at least one digit.  (The texts of the
\* model use no exponent and none of inf / nan.)
parse_f64(s) ==
    LET signed == s # <<>> /\ Head(s) \in {"+", "-"}
        body == IF signed THEN Tail(s) ELSE s
        dot == split_once(body, ".")
        int == IF dot.some THEN dot.l ELSE body
        frac == IF dot.some THEN dot.r ELSE <<>>
    IN  IF AllDigits(int) /\ AllDigits(frac) /\ Len(int) + Len(frac) > 0
        THEN [ok |-> TRUE,
              val |-> F64Norm([neg |-> signed /\ Head(s) = "-",
                               m |-> DigitsValue(int \o frac),
                               f |-> Len(frac)])]
        ELSE [ok |-> FALSE]

\* F applied to the value of v: v is evaluated once, however often F uses it.
Bind(v, F(_)) == CHOOSE y \in {F(x) : x \in {v}} : TRUE

RECURSIVE Pow2(_)
Pow2(n) == IF n = 0 THEN 1 ELSE 2 * Pow2(n - 1)

\* The arithmetic of f64 (IEEE 754 binary64, round to nearest, ties to even)
\* on exact integers.  A big natural number is a sequence of limbs of
\* LimbBits bits, the least significant first.
LimbBits == 13
LimbBase == Pow2(LimbBits)
\* f64::MANTISSA_DIGITS
MantissaBits == 53
\* A decimal is divided with 6 limbs (78 bits) after the binary point.
ScaleLimbs == 6

BigFromInt(v) ==
    <<v % LimbBase, (v \div LimbBase) % LimbBase,
      v \div (LimbBase * LimbBase)>>

\* a * 2^(LimbBits * k)
BigShiftLimbs(a, k) == [i \in 1..k |-> 0] \o a

\* The limbs of a below limb i divided by d < LimbBase * 32, with r carried in.
RECURSIVE BigDivFrom(_, _, _, _)
BigDivFrom(a, i, r, d) ==
    IF i = 0 THEN [q |-> <<>>, r |-> r]
    ELSE Bind(r * LimbBase + a[i], LAMBDA cur :
           Bind(BigDivFrom(a, i - 1, cur % d, d), LAMBDA rest :
             [q |-> Append(rest.q, cur \div d), r |-> rest.r]))

\* Quotient and remainder of a by a small d.
BigDivSmall(a, d) == BigDivFrom(a, Len(a), 0, d)

RECURSIVE BigMulFrom(_, _, _, _)
BigMulFrom(a, i, carry, k) ==
    IF i > Len(a) THEN <<carry>>
    ELSE Bind(a[i] * k + carry, LAMBDA cur :
           <<cur % LimbBase>> \o BigMulFrom(a, i + 1, cur \div LimbBase, k))

\* a * k for a small k.
BigMulSmall(a, k) == BigMulFrom(a, 1, 0, k)

\* Bit i (from 0) of a.
BitAt(a, i) ==
    IF i < 0 \/ i \div LimbBits + 1 > Len(a) THEN 0
    ELSE (a[i \div LimbBits + 1] \div Pow2(i % LimbBits)) % 2

BitLen(a) ==
    LET S == {i \in 0..(LimbBits * Len(a) - 1) : BitAt(a, i) = 1}
    IN  IF S = {} THEN 0 ELSE 1 + CHOOSE i \in S : \A j \in S : j <= i

\* The function f on 1..n as a sequence, each element evaluated once.
AsSeq(f, n) == SubSeq(f, 1, n)

\* The f64 nearest to a (+ a fraction below one unit when sticky), ties to
\* even: man * 2^exp with man the MantissaBits bits of the significand, the
\* least significant first.  (a has more than MantissaBits bits.)
RoundToF64(a, sticky) ==
    Bind(BitLen(a) - MantissaBits, LAMBDA s :
      Bind(AsSeq([j \in 1..MantissaBits |-> BitAt(a, s + j - 1)],
                 MantissaBits), LAMBDA b :
        LET up == /\ BitAt(a, s - 1) = 1
                  /\ \/ sticky
                     \/ \E i \in 0..(s - 2) : BitAt(a, i) = 1
                     \/ b[1] = 1
        IN  IF ~up THEN [man |-> b, exp |-> s]
            ELSE IF \A j \in 1..MantissaBits : b[j] = 1
            THEN [man |-> AsSeq([j \in 1..MantissaBits |->
                                    IF j = MantissaBits THEN 1 ELSE 0],
                                MantissaBits),
                  exp |-> s + 1]
            ELSE [man |-> AsSeq([j \in 1..MantissaBits |->
                                    IF \A t \in 1..(j - 1) : b[t] = 1
                                    THEN 1 - b[j] ELSE b[j]],
                                MantissaBits),
                  exp |-> s]))

RECURSIVE LimbOfBits(_, _, _)
LimbOfBits(b, lo, t) ==
    IF t = LimbBits \/ lo + t + 1 > Len(b) THEN 0
    ELSE b[lo + t + 1] * Pow2(t) + LimbOfBits(b, lo, t + 1)

BigFromBits(b) ==
    AsSeq([i \in 1..((Len(b) + LimbBits - 1) \div LimbBits) |->
              LimbOfBits(b, LimbBits * (i - 1), 0)],
          (Len(b) + LimbBits - 1) \div LimbBits)

\* <f64 as FromStr>::from_str of the decimal m / 10^f, m > 0: the nearest f64.
F64FromDecimal(m, f) ==
    Bind(BigDivSmall(BigShiftLimbs(BigFromInt(m), ScaleLimbs), Pow10(f)),
         LAMBDA d :
           Bind(RoundToF64(d.q, d.r # 0), LAMBDA x :
             [man |-> x.man, exp |-> x.exp - LimbBits * ScaleLimbs]))

\* x * k in f64 for a whole k that f64 holds exactly: the exact product,
\* rounded once.
F64MulWhole(x, k) ==
    Bind(RoundToF64(BigMulSmall(BigFromBits(x.man), k), FALSE), LAMBDA y :
      [man |-> y.man, exp |-> y.exp + x.exp])

\* x as u64 for x >= 0 below 2^31: the cast truncates toward zero.
RECURSIVE F64AsU64From(_, _)
F64AsU64From(x, j) ==
    IF j > Len(x.man) THEN 0
    ELSE (IF x.man[j] = 1 /\ x.exp + j - 1 >= 0
          THEN Pow2(x.exp + j - 1) ELSE 0)
         + F64AsU64From(x, j + 1)

\* (x * 1000.0) as u64, x the f64 parsed from the decimal x.m / 10^x.f: the
\* product is rounded to f64, the cast truncates it toward zero and saturates
\* at 0 for a negative x.
F64Times1000AsU64(x) ==
    IF x.neg \/ x.m = 0 THEN 0
    ELSE F64AsU64From(F64MulWhole(F64FromDecimal(x.m, x.f), 1000), 1)

\* ---- f64 values in binary: (-1)^neg * man * 2^exp, man the MantissaBits
\* bits of the significand (the least significant first, the top bit 1), or
\* all bits 0 for zero.  (No value of the model is subnormal, infinite or
\* NaN.)
F64PosZero ==
    [neg |-> FALSE, man |-> AsSeq([j \in 1..MantissaBits |-> 0], MantissaBits),
     exp |-> 0]

F64IsZero(x) == \A j \in 1..MantissaBits : x.man[j] = 0

\* f64::MAX = (2^53 - 1) * 2^971.
f64_MAX ==
    [neg |-> FALSE, man |-> AsSeq([j \in 1..MantissaBits |-> 1], MantissaBits),
     exp |-> 971]

\* a without its leading zero limbs.
RECURSIVE BigTrim(_)
BigTrim(a) ==
    IF a # <<>> /\ a[Len(a)] = 0 THEN BigTrim(SubSeq(a, 1, Len(a) - 1))
    ELSE a

BigLimb(a, i) == IF i <= Len(a) THEN a[i] ELSE 0

\* a < b for trimmed a and b.
BigLess(a, b) ==
    \/ Len(a) < Len(b)
    \/ /\ Len(a) = Len(b)
       /\ \E i \in 1..Len(a) :
            /\ a[i] < b[i]
            /\ \A j \in (i + 1)..Len(a) : a[j] = b[j]

RECURSIVE BigAddFrom(_, _, _, _)
BigAddFrom(a, b, i, carry) ==
    IF i > Len(a) /\ i > Len(b) THEN <<carry>>
    ELSE Bind(BigLimb(a, i) + BigLimb(b, i) + carry, LAMBDA cur :
           <<cur % LimbBase>>
               \o BigAddFrom(a, b, i + 1, cur \div LimbBase))

BigAdd(a, b) == BigAddFrom(a, b, 1, 0)

\* a - b for a >= b.
RECURSIVE BigSubFrom(_, _, _, _)
BigSubFrom(a, b, i, borrow) ==
    IF i > Len(a) THEN <<>>
    ELSE Bind(a[i] - BigLimb(b, i) - borrow, LAMBDA cur :
           <<cur % LimbBase>>
               \o BigSubFrom(a, b, i + 1, IF cur < 0 THEN 1 ELSE 0))

BigSub(a, b) == BigSubFrom(a, b, 1, 0)

\* a * 2^n.
BigShiftBits(a, n) ==
    BigShiftLimbs(BigMulSmall(a, Pow2(n % LimbBits)), n \div LimbBits)

\* a * b, limb i of b onwards.
RECURSIVE BigMulBy(_, _, _)
BigMulBy(a, b, i) ==
    IF i > Len(b) THEN <<>>
    ELSE BigAdd(BigShiftLimbs(BigMulSmall(a, b[i]), i - 1),
                BigMulBy(a, b, i + 1))

BigMul(a, b) == BigMulBy(a, b, 1)

\* The f64 nearest to (-1)^neg * a * 2^e, a > 0 (+ a fraction when sticky).
F64Round(neg, a, e, sticky) ==
    Bind(RoundToF64(BigShiftLimbs(a, ScaleLimbs), sticky), LAMBDA y :
      [neg |-> neg, man |-> y.man, exp |-> y.exp + e - LimbBits * ScaleLimbs])

\* `n as f64` of a whole n >= 0, and the f64 of the decimal x.
F64FromInt(n) ==
    IF n = 0 THEN F64PosZero ELSE F64Round(FALSE, BigFromInt(n), 0, FALSE)

F64Of(x) ==
    IF x.m = 0 THEN [F64PosZero EXCEPT !.neg = x.neg]
    ELSE Bind(F64FromDecimal(x.m, x.f), LAMBDA y :
           [neg |-> x.neg, man |-> y.man, exp |-> y.exp])

F64Neg(x) == [x EXCEPT !.neg = ~x.neg]

\* |x| < |y|.
F64MagLess(x, y) ==
    IF F64IsZero(y) THEN FALSE
    ELSE IF F64IsZero(x) THEN TRUE
    ELSE IF x.exp # y.exp THEN x.exp < y.exp
    ELSE BigLess(BigTrim(BigFromBits(x.man)), BigTrim(BigFromBits(y.man)))

\* x < y and x <= y of f64 (-0.0 equals 0.0).
F64Less(x, y) ==
    IF F64IsZero(x) /\ F64IsZero(y) THEN FALSE
    ELSE IF x.neg # y.neg /\ ~F64IsZero(x) /\ ~F64IsZero(y) THEN x.neg
    ELSE IF F64IsZero(x) THEN ~y.neg
    ELSE IF F64IsZero(y) THEN x.neg
    ELSE IF x.neg THEN F64MagLess(y, x) ELSE F64MagLess(x, y)

F64Le(x, y) == ~F64Less(y, x)

\* f64::min and f64::max.
f64_min(x, y) == IF F64Less(y, x) THEN y ELSE x
f64_max(x, y) == IF F64Less(x, y) THEN y ELSE x

\* Operands whose exponents are further apart than this: the sum is the
\* larger one.
GuardBits == MantissaBits + LimbBits

\* x + y in f64: the exact sum, rounded once.
F64Add(x, y) ==
    IF F64IsZero(x) /\ F64IsZero(y)
    THEN [F64PosZero EXCEPT !.neg = x.neg /\ y.neg]
    ELSE IF F64IsZero(y) THEN x
    ELSE IF F64IsZero(x) THEN y
    ELSE IF x.exp - y.exp > GuardBits THEN x
    ELSE IF y.exp - x.exp > GuardBits THEN y
    ELSE Bind(Min2(x.exp, y.exp), LAMBDA e :
      Bind(BigTrim(BigShiftBits(BigFromBits(x.man), x.exp - e)), LAMBDA a :
        Bind(BigTrim(BigShiftBits(BigFromBits(y.man), y.exp - e)), LAMBDA b :
          IF x.neg = y.neg THEN F64Round(x.neg, BigAdd(a, b), e, FALSE)
          ELSE IF a = b THEN F64PosZero
          ELSE IF BigLess(a, b) THEN F64Round(y.neg, BigSub(b, a), e, FALSE)
          ELSE F64Round(x.neg, BigSub(a, b), e, FALSE))))

F64Sub(x, y) == F64Add(x, F64Neg(y))

\* x * y in f64: the exact product, rounded once.
F64Mul(x, y) ==
    IF F64IsZero(x) \/ F64IsZero(y)
    THEN [F64PosZero EXCEPT !.neg = (x.neg # y.neg)]
    ELSE F64Round(x.neg # y.neg,
                  BigMul(BigFromBits(x.man), BigFromBits(y.man)),
                  x.exp + y.exp, FALSE)

\* x / k in f64 for a whole k, 0 < k < 2^18: the exact quotient, rounded
\* once.
F64DivWhole(x, k) ==
    IF F64IsZero(x) THEN x
    ELSE Bind(BigDivSmall(BigShiftLimbs(BigFromBits(x.man), ScaleLimbs), k),
              LAMBDA d :
                Bind(RoundToF64(d.q, d.r # 0), LAMBDA y :
                  [neg |-> x.neg, man |-> y.man,
                   exp |-> y.exp + x.exp - LimbBits * ScaleLimbs]))

\* x truncated toward zero, for 0 <= x < 2^31.
F64Trunc(x) == IF F64IsZero(x) THEN 0 ELSE F64AsU64From(x, 1)

\* The bits of a from bit s upwards, as a whole number below 2^31.
RECURSIVE BigBitsFrom(_, _, _)
BigBitsFrom(a, s, t) ==
    IF t > 30 \/ s + t >= LimbBits * Len(a) THEN 0
    ELSE BitAt(a, s + t) * Pow2(t) + BigBitsFrom(a, s, t + 1)

\* What format!("{:.d}") prints of x, d = digits: the exact value of x
\* rounded to d decimal places, ties to even.  The text is kept as its
\* sign and its digits without the point, `units` (a big natural number):
\* "-12.50" is [neg |-> TRUE, units |-> 1250, digits |-> 2].
FormatFixed(x, digits) ==
    IF F64IsZero(x)
    THEN [neg |-> x.neg, units |-> <<>>, digits |-> digits]
    ELSE Bind(BigMulSmall(BigFromBits(x.man), Pow10(digits)), LAMBDA a :
      IF x.exp >= 0
      THEN [neg |-> x.neg, units |-> BigTrim(BigShiftBits(a, x.exp)),
            digits |-> digits]
      ELSE Bind(0 - x.exp, LAMBDA s :
        Bind(BigBitsFrom(a, s, 0), LAMBDA whole :
          LET up == /\ BitAt(a, s - 1) = 1
                    /\ \/ \E i \in 0..(s - 2) : BitAt(a, i) = 1
                       \/ whole % 2 = 1
          IN  [neg |-> x.neg,
               units |-> BigTrim(BigFromInt(IF up THEN whole + 1 ELSE whole)),
               digits |-> digits])))

(***************************************************************************)
(* ffmpeg.rs: parsing                                                      *)
(***************************************************************************)
K_frame == <<"f", "r", "a", "m", "e">>
K_fps == <<"f", "p", "s">>
K_bitrate == <<"b", "i", "t", "r", "a", "t", "e">>
K_total_size == <<"t", "o", "t", "a", "l", "_", "s", "i", "z", "e">>
K_out_time_us == <<"o", "u", "t", "_", "t", "i", "m", "e", "_", "u", "s">>
K_out_time_ms == <<"o", "u", "t", "_", "t", "i", "m", "e", "_", "m", "s">>
K_out_time == <<"o", "u", "t", "_", "t", "i", "m", "e">>
K_dup_frames == <<"d", "u", "p", "_", "f", "r", "a", "m", "e", "s">>
K_drop_frames == <<"d", "r", "o", "p", "_", "f", "r", "a", "m", "e", "s">>
K_speed == <<"s", "p", "e", "e", "d">>
K_progress == <<"p", "r", "o", "g", "r", "e", "s", "s">>
S_kbits == <<"k", "b", "i", "t", "s", "/", "s">>
S_x == <<"x">>

\* A std::time::Duration: whole seconds and nanoseconds below one second.
DurationZero == [secs |-> 0, nanos |-> 0]

NanosPerSec == 1000000000
MicrosPerSec == 1000000

\* Duration::from_secs(secs) + Duration::from_micros(micros).
DurationFromSecsPlusMicros(secs, micros) ==
    LET n == (micros % MicrosPerSec) * 1000
    IN  [secs |-> secs + micros \div MicrosPerSec + n \div NanosPerSec,
         nanos |-> n % NanosPerSec]

\* #[derive(Default)] Progress.
ProgressDefault ==
    [frame |-> 0, fps |-> F64Zero, bitrate |-> 0, total_size |-> 0,
     out_time_us |-> 0, out_time_ms |-> 0, out_time |-> DurationZero,
     dup_frames |-> 0, drop_frames |-> 0, speed |-> F64Zero]

\* A parse_time that reads the digits after the "." as milliseconds.
parse_time_millis(value) ==
    LET h == split_once(value, ":")
        m == IF h.some THEN split_once(h.r, ":") ELSE [some |-> FALSE]
        sm == IF m.some THEN split_once(m.r, ".") ELSE [some |-> FALSE]
    IN  IF ~h.some \/ ~m.some \/ ~sm.some THEN [ok |-> FALSE]
        ELSE LET hours == parse_u64(h.l)
                 minutes == parse_u64(m.l)
                 seconds == parse_u64(sm.l)
                 millis == parse_u64(sm.r)
             IN  IF hours.ok /\ minutes.ok /\ seconds.ok /\ millis.ok
                 THEN [ok |-> TRUE,
                       val |-> DurationFromSecsPlusMicros(
                                   hours.val * 3600 + minutes.val * 60
                                       + seconds.val,
                                   millis.val * 1000)]
                 ELSE [ok |-> FALSE]

\* parse_time: HH:MM:SS.ffffff.
parse_time(value) ==
    LET h == split_once(value, ":")
        m == IF h.some THEN split_once(h.r, ":") ELSE [some |-> FALSE]
        sm == IF m.some THEN split_once(m.r, ".") ELSE [some |-> FALSE]
    IN  IF ~h.some \/ ~m.some \/ ~sm.some THEN [ok |-> FALSE]
        ELSE LET hours == parse_u64(h.l)
                 minutes == parse_u64(m.l)
                 seconds == parse_u64(sm.l)
                 micros == parse_u64(sm.r)
             IN  IF hours.ok /\ minutes.ok /\ seconds.ok /\ micros.ok
                 THEN [ok |-> TRUE,
                       val |-> DurationFromSecsPlusMicros(
                                   hours.val * 3600 + minutes.val * 60
                                       + seconds.val,
                                   micros.val)]
                 ELSE [ok |-> FALSE]

\* An assignment that leaves the field alone when the value does not parse.
KvField_default(progress, field, parsed) ==
    IF parsed.ok
    THEN [ok |-> TRUE, done |-> FALSE,
          progress |-> [progress EXCEPT ![field] = parsed.val]]
    ELSE [ok |-> TRUE, done |-> FALSE, progress |-> progress]

\* One arm of parse_kv, `progress.field = <parse of value>?`, as the
\* Result<bool> of parse_kv with the record as it leaves the call:
\* ok = FALSE is Err(_); done is the bool of Ok(_).
KvField(progress, field, parsed) ==
    IF parsed.ok
    THEN [ok |-> TRUE, done |-> FALSE,
          progress |-> [progress EXCEPT ![field] = parsed.val]]
    ELSE [ok |-> FALSE, done |-> FALSE, progress |-> progress]

\* parse_kv.
parse_kv(progress, key, value0) ==
    LET value == trim(value0)
    IN  CASE key = K_frame -> KvField(progress, "frame", parse_u64(value))
          [] key = K_fps -> KvField(progress, "fps", parse_f64(value))
          [] key = K_bitrate ->
                LET p == parse_f64(strip_suffix_or(value, S_kbits))
                IN  KvField(progress, "bitrate",
                            IF p.ok
                            THEN [ok |-> TRUE, val |-> F64Times1000AsU64(p.val)]
                            ELSE p)
          [] key = K_total_size ->
                KvField(progress, "total_size", parse_u64(value))
          [] key = K_out_time_us ->
                KvField(progress, "out_time_us", parse_u64(value))
          [] key = K_out_time_ms ->
                KvField(progress, "out_time_ms", parse_u64(value))
          [] key = K_out_time -> KvField(progress, "out_time", parse_time(value))
          [] key = K_dup_frames ->
                KvField(progress, "dup_frames", parse_u64(value))
          [] key = K_drop_frames ->
                KvField(progress, "drop_frames", parse_u64(value))
          [] key = K_speed ->
                KvField(progress, "speed", parse_f64(strip_suffix_or(value, S_x)))
          [] key = K_progress ->
                [ok |-> TRUE, done |-> TRUE, progress |-> progress]
          [] OTHER -> [ok |-> TRUE, done |-> FALSE, progress |-> progress]

\* The lines the child writes in the model, each as read_line returns it.
\*   1 frame=10            5 out_time=0001.5      9 progress=
\*   2 fps=24.0            6 out_time=00:00:01   10 (blank)
\*   3 fps=abc             7 progress=continue   11 N/A
\*   4 out_time=00:00:01.500000  8 progress=end  12 foo=1
LineText ==
    << <<"f", "r", "a", "m", "e", "=", "1", "0", "\n">>,
       <<"f", "p", "s", "=", "2", "4", ".", "0", "\n">>,
       <<"f", "p", "s", "=", "a", "b", "c", "\n">>,
       <<"o", "u", "t", "_", "t", "i", "m", "e", "=", "0", "0", ":", "0", "0",
         ":", "0", "1", ".", "5", "0", "0", "0", "0", "0", "\n">>,
       <<"o", "u", "t", "_", "t", "i", "m", "e", "=", "0", "0", "0", "1", ".",
         "5", "\n">>,
       <<"o", "u", "t", "_", "t", "i", "m", "e", "=", "0", "0", ":", "0", "0",
         ":", "0", "1", "\n">>,
       <<"p", "r", "o", "g", "r", "e", "s", "s", "=", "c", "o", "n", "t", "i",
         "n", "u", "e", "\n">>,
       <<"p", "r", "o", "g", "r", "e", "s", "s", "=", "e", "n", "d", "\n">>,
       <<"p", "r", "o", "g", "r", "e", "s", "s", "=", "\n">>,
       <<"\n">>,
       <<"N", "/", "A", "\n">>,
       <<"f", "o", "o", "=", "1", "\n">> >>

LineIds == 1..Len(LineText)

\* buf.trim().split_once('=') of each line.
LineSplit == [i \in LineIds |-> split_once(trim(LineText[i]), "=")]

\* More lines with recognized keys, numbered after those of LineText.
\*   13 bitrate=1000kbits/s   16 speed=1.5x                 19 out_time=00:01:01.000001
\*   14 bitrate=32.3kbits/s   17 speed=2                    20 out_time_us=61000001
\*   15 bitrate= 1.5          18 out_time=00:00:01.000000
FieldText ==
    << <<"b", "i", "t", "r", "a", "t", "e", "=", "1", "0", "0", "0", "k", "b",
         "i", "t", "s", "/", "s", "\n">>,
       <<"b", "i", "t", "r", "a", "t", "e", "=", "3", "2", ".", "3", "k", "b",
         "i", "t", "s", "/", "s", "\n">>,
       <<"b", "i", "t", "r", "a", "t", "e", "=", " ", "1", ".", "5", "\n">>,
       <<"s", "p", "e", "e", "d", "=", "1", ".", "5", "x", "\n">>,
       <<"s", "p", "e", "e", "d", "=", "2", "\n">>,
       <<"o", "u", "t", "_", "t", "i", "m", "e", "=", "0", "0", ":", "0", "0",
         ":", "0", "1", ".", "0", "0", "0", "0", "0", "0", "\n">>,
       <<"o", "u", "t", "_", "t", "i", "m", "e", "=", "0", "0", ":", "0", "1",
         ":", "0", "1", ".", "0", "0", "0", "0", "0", "1", "\n">>,
       <<"o", "u", "t", "_", "t", "i", "m", "e", "_", "u", "s", "=", "6", "1",
         "0", "0", "0", "0", "0", "1", "\n">> >>

FieldIds == (Len(LineText) + 1)..(Len(LineText) + Len(FieldText))

\* The lines of a block of fields: those of FieldText, `frame=10`, `fps=24.0`.
BlockIds == FieldIds \cup {1, 2}

FieldSplit ==
    [i \in FieldIds |-> split_once(trim(FieldText[i - Len(LineText)]), "=")]

\* buf.trim().split_once('=') of a line of either table.
SplitOf(i) == IF i \in LineIds THEN LineSplit[i] ELSE FieldSplit[i]

(***************************************************************************)
(* ffmpeg.rs: ProgressIter                                                 *)
(***************************************************************************)
\* What the child can have written to its standard error.
StderrTexts == {"", "Conversion failed!"}

\* waits and kills count the wait_with_output and kill calls on the child.
ProcNone ==
    [state |-> "none", waited |-> FALSE, killSent |-> FALSE,
     status |-> 0, stderr |-> "", waits |-> 0, kills |-> 0]

\* The process right after Command::spawn.
ProcSpawned == [ProcNone EXCEPT !.state = "running"]

RetNothing == [kind |-> "nothing"]
RetNone == [kind |-> "None"]
RetOk(p) == [kind |-> "Ok", progress |-> p]
RetErr(why, msg) == [kind |-> "Err", why |-> why, msg |-> msg]

\* A finish_process that does not look at the exit status.
finish_process_nostatus(c, waitOk, status, stderr) ==
    IF c = "None" THEN RetNone
    ELSE IF ~waitOk THEN RetErr("wait", "io error")
    ELSE RetNone

\* finish_process, as next() maps its Result: Ok(()) to None, Err(e) to
\* Some(Err(e)).  waitOk, status and stderr are what wait_with_output gives.
finish_process(c, waitOk, status, stderr) ==
    IF c = "None" THEN RetNone
    ELSE IF ~waitOk THEN RetErr("wait", "io error")
    ELSE IF status = 0 THEN RetNone
    ELSE RetErr("exit", stderr)

\* A loop body that ends an epoch only at `progress=continue`.
on_line_continue_only(progress, sp) ==
    IF ~sp.some THEN [kind |-> "continue", progress |-> progress]
    ELSE LET r == parse_kv(progress, sp.l, sp.r)
         IN  IF ~r.ok THEN [kind |-> "err", progress |-> progress]
             ELSE IF r.done /\ sp.r = <<"c", "o", "n", "t", "i", "n", "u", "e">>
             THEN [kind |-> "ok", progress |-> r.progress]
             ELSE [kind |-> "continue", progress |-> r.progress]

\* A loop body that starts the record over at a line without "=".
on_line_reset(progress, sp) ==
    IF ~sp.some THEN [kind |-> "continue", progress |-> ProgressDefault]
    ELSE LET r == parse_kv(progress, sp.l, sp.r)
         IN  IF ~r.ok THEN [kind |-> "err", progress |-> progress]
             ELSE IF r.done THEN [kind |-> "ok", progress |-> r.progress]
             ELSE [kind |-> "continue", progress |-> r.progress]

\* One turn of next()'s loop on a line read: sp is buf.trim().split_once('=').
on_line(progress, sp) ==
    IF ~sp.some THEN [kind |-> "continue", progress |-> progress]
    ELSE LET r == parse_kv(progress, sp.l, sp.r)
         IN  IF ~r.ok THEN [kind |-> "err", progress |-> progress]
             ELSE IF r.done THEN [kind |-> "ok", progress |-> r.progress]
             ELSE [kind |-> "continue", progress |-> r.progress]

\* A next() that goes on with the record of the call before.
NextCall_keep ==
    /\ ipc = "idle"
    /\ IF child = "None"
       THEN iret' = RetNone /\ UNCHANGED <<ipc, acc>>
       ELSE ipc' = "reading" /\ UNCHANGED <<iret, acc>>
    /\ UNCHANGED <<child, proc, stream, emitted>>

\* A next() that reads whether or not the child is still held.
NextCall_nocheck ==
    /\ ipc = "idle"
    /\ ipc' = "reading" /\ acc' = ProgressDefault /\ UNCHANGED iret
    /\ UNCHANGED <<child, proc, stream, emitted>>

\* next(), up to the loop: `self.child.as_ref()?` and the fresh record.
NextCall ==
    /\ ipc = "idle"
    /\ IF child = "None"
       THEN iret' = RetNone /\ UNCHANGED <<ipc, acc>>
       ELSE ipc' = "reading" /\ acc' = ProgressDefault /\ UNCHANGED iret
    /\ UNCHANGED <<child, proc, stream, emitted>>

\* read_line returned Ok(n), n > 0, with line i of the child's output: one
\* turn of the loop.  The local `progress` is dead once next() has returned;
\* acc keeps its last value until the next call.
ReadLineOf(i) ==
    \E step \in {on_line(acc, SplitOf(i))} :
        /\ stream' = Append(stream, i)
        /\ acc' = step.progress
        /\ CASE step.kind = "continue" ->
                  UNCHANGED <<ipc, iret, emitted>>
             [] step.kind = "ok" ->
                  /\ iret' = RetOk(step.progress)
                  /\ emitted' = Append(emitted,
                                       [at |-> Len(stream) + 1,
                                        progress |-> step.progress])
                  /\ ipc' = "idle"
             [] step.kind = "err" ->
                  /\ iret' = RetErr("parse", "parse error")
                  /\ ipc' = "idle"
                  /\ UNCHANGED emitted

\* The child writes any line of LineText.
ReadLine ==
    /\ ipc = "reading"
    /\ Len(stream) < MaxLines
    /\ \E i \in LineIds : ReadLineOf(i)
    /\ UNCHANGED <<child, proc, pc, history, timestamp, result>>
    /\ UNCHANGED otherThanRun

\* The lines of a run that is looked at from outside: `frame=10`, the
\* malformed `fps=abc`, `progress=continue`.
RunIds == {1, 3, 7}

\* The child writes any line of RunIds.
ReadRunLine ==
    /\ ipc = "reading"
    /\ Len(stream) < MaxLines
    /\ \E i \in RunIds : ReadLineOf(i)
    /\ UNCHANGED <<child, proc, pc, history, timestamp, result>>
    /\ UNCHANGED otherThanRun

\* The child writes one block as ffmpeg does: up to MaxFields lines with
\* recognized keys in any order, each key once, then `progress=continue`.
ReadField ==
    /\ ipc = "reading"
    /\ emitted = <<>>
    /\ \E i \in BlockIds \cup {7} :
         /\ i # 7 => Len(stream) < MaxFields
         /\ \A k \in 1..Len(stream) : SplitOf(stream[k]).l # SplitOf(i).l
         /\ ReadLineOf(i)
    /\ UNCHANGED <<child, proc, pc, history, timestamp, result>>
    /\ UNCHANGED otherThanRun

\* An end of input that first returns what the epoch has gathered so far.
ReadEof_flush ==
    /\ ipc = "reading"
    /\ \E waitOk \in BOOLEAN, status \in {0, 1}, stderr \in StderrTexts :
         /\ iret' = IF acc # ProgressDefault THEN RetOk(acc)
                    ELSE finish_process(child, waitOk, status, stderr)
         /\ proc' = IF waitOk
                    THEN [proc EXCEPT !.state = "reaped", !.waited = TRUE,
                                      !.status = status, !.stderr = stderr,
                                      !.waits = @ + 1]
                    ELSE [proc EXCEPT !.state = "unknown", !.waited = TRUE,
                                      !.waits = @ + 1]
    /\ emitted' = IF acc # ProgressDefault
                  THEN Append(emitted, [at |-> Len(stream), progress |-> acc])
                  ELSE emitted
    /\ child' = "None"
    /\ ipc' = "idle"
    /\ UNCHANGED <<acc, stream, pc, history, timestamp, result>>
    /\ UNCHANGED otherThanRun

\* read_line returned Ok(0): end of input; finish_process(self.child.take()).
\* wait_with_output either fails, or has waited for the exit and gives the
\* status and what the child wrote to its standard error.
ReadEof ==
    /\ ipc = "reading"
    /\ \E waitOk \in BOOLEAN, status \in {0, 1}, stderr \in StderrTexts :
         /\ iret' = finish_process(child, waitOk, status, stderr)
         /\ proc' = IF child = "None" THEN proc
                    ELSE IF waitOk
                    THEN [proc EXCEPT !.state = "reaped", !.waited = TRUE,
                                      !.status = status, !.stderr = stderr,
                                      !.waits = @ + 1]
                    ELSE [proc EXCEPT !.state = "unknown", !.waited = TRUE,
                                      !.waits = @ + 1]
    /\ child' = "None"
    /\ ipc' = "idle"
    /\ UNCHANGED <<acc, stream, emitted, pc, history, timestamp, result>>
    /\ UNCHANGED otherThanRun

\* A read error that gives the child up.
ReadErr_fatal ==
    /\ ipc = "reading"
    /\ iret' = RetErr("read", "io error")
    /\ ipc' = "idle"
    /\ child' = "None"
    /\ UNCHANGED <<proc, acc, stream, emitted>>
    /\ UNCHANGED <<pc, history, timestamp, result>>
    /\ UNCHANGED otherThanRun

\* read_line returned Err(e).
ReadErr ==
    /\ ipc = "reading"
    /\ iret' = RetErr("read", "io error")
    /\ ipc' = "idle"
    /\ UNCHANGED <<child, proc, acc, stream, emitted>>
    /\ UNCHANGED <<pc, history, timestamp, result>>
    /\ UNCHANGED otherThanRun

\* A drop that lets go of the child without a signal.
DropIter_nokill ==
    /\ ipc = "idle"
    /\ ipc' = "gone"
    /\ child' = "None"
    /\ UNCHANGED <<proc, acc, iret, stream, emitted>>

\* A drop that signals the process whether or not the child is still held.
DropIter_killany ==
    /\ ipc = "idle"
    /\ ipc' = "gone"
    /\ child' = "None"
    /\ proc' = [proc EXCEPT !.killSent = TRUE, !.kills = @ + 1]
    /\ UNCHANGED <<acc, iret, stream, emitted>>

\* impl Drop for ProgressIter: kill the child if it is still held.  The
\* killed process stays a zombie: nothing waits for it.
DropIter ==
    /\ ipc = "idle"
    /\ ipc' = "gone"
    /\ child' = "None"
    /\ proc' = IF child = "Some"
               THEN [proc EXCEPT !.state = "zombie", !.killSent = TRUE,
                                 !.kills = @ + 1]
               ELSE proc
    /\ UNCHANGED <<acc, iret, stream, emitted>>

(***************************************************************************)
(* A consumer that calls next() and drops the iterator as it likes.        *)
(***************************************************************************)
InitIterVars ==
    /\ child = "Some"
    /\ proc = ProcSpawned
    /\ ipc = "idle"
    /\ acc = ProgressDefault
    /\ iret = RetNothing
    /\ stream = <<>>
    /\ emitted = <<>>

GenNext ==
    /\ pc = "generic"
    /\ NextCall
    /\ UNCHANGED runVars
    /\ UNCHANGED otherThanRun

GenDrop ==
    /\ pc = "generic"
    /\ DropIter
    /\ UNCHANGED runVars
    /\ UNCHANGED otherThanRun

(***************************************************************************)
(* values.rs.  A y value of the chart is `bitrate as f64` of a u64: a       *)
(* whole number >= 0, and so are the x values (0.0 plus 1.0 at a time).    *)
(***************************************************************************)
Max2(a, b) == IF a >= b THEN a ELSE b

\* (value * 100.0).round() as u64: round rounds half away from zero, the
\* cast saturates at 0.
F64Times100RoundAsU64(x) ==
    IF x.neg THEN 0
    ELSE (x.m * 200 + Pow10(x.f)) \div (2 * Pow10(x.f))

\* f64::MAX: above every y of the model.
F64Max == 1000000

\* <(f64, f64)>::default().
PointDefault == <<0, 0>>

\* What fps.update can be handed: 0.006, 1.5 and -1.0.
SparkInputs ==
    { [neg |-> FALSE, m |-> 6, f |-> 3],
      [neg |-> FALSE, m |-> 15, f |-> 1],
      [neg |-> TRUE, m |-> 1, f |-> 0] }

\* What bitrate.update can be handed, and the ffprobe.bit_rate of the
\* baseline.
ChartInputs == 0..MaxY
Baselines == {0, 5}

\* SparklineValues::new.
SparklineValues_new ==
    [history |-> ArrayNew(SparkCap, 0), max |-> 0, current |-> F64Zero]

\* An update whose max is the largest sample of the window.
SparklineValues_update_window(sv, value) ==
    LET v == F64Times100RoundAsU64(value)
        h == push(sv.history, v)
    IN  [history |-> h,
         max |-> CHOOSE m \in {h.buf[i] : i \in 1..h.len} :
                     \A i \in 1..h.len : h.buf[i] <= m,
         current |-> value]

\* SparklineValues::update.
SparklineValues_update(sv, value) ==
    LET v == F64Times100RoundAsU64(value)
    IN  [history |-> push(sv.history, v),
         max |-> Max2(sv.max, v),
         current |-> value]

\* usize / u16 saturating_sub.
saturating_sub(a, b) == IF a > b THEN a - b ELSE 0

NoSparkline == [kind |-> "none"]

\* A create that keeps the front of the data.
SparklineValues_create_front(sv, width) ==
    LET data == as_slice(sv.history)
        from == saturating_sub(Len(data), saturating_sub(width, 2))
    IN  [kind |-> "Sparkline", width |-> width,
         data |-> SubSeq(data, 1, Len(data) - from), max |-> sv.max]

\* SparklineValues::create for an area of the given width: the Sparkline's
\* data and max, or the panic of a slice that starts past the end.
SparklineValues_create(sv, width) ==
    LET data == as_slice(sv.history)
        from == saturating_sub(Len(data), saturating_sub(width, 2))
    IN  IF from > Len(data) THEN [kind |-> "panic", width |-> width]
        ELSE [kind |-> "Sparkline", width |-> width,
              data |-> SubSeq(data, from + 1, Len(data)), max |-> sv.max]

\* ChartValues::new: history is Array::default().
ChartValues_new(baseline) ==
    [history |-> ArrayNew(ChartCap, PointDefault),
     baseline |-> << <<0, baseline>>, <<0, baseline>> >>,
     current |-> 0, min |-> 0, max |-> 0]

\* The loop of update over as_slice(): the min and max of the y values of
\* slice s from element i on, starting from lo and hi.
RECURSIVE ScanMinMax(_, _, _, _)
ScanMinMax(s, i, lo, hi) ==
    IF i > Len(s) THEN [min |-> lo, max |-> hi]
    ELSE ScanMinMax(s, i + 1, Min2(lo, s[i][2]), Max2(hi, s[i][2]))

\* An update that compares min and max with the incoming value only.
ChartValues_update_incoming(cv, value) ==
    LET h == push(cv.history,
                  <<last_with(cv.history, PointDefault)[1] + 1, value>>)
    IN  [history |-> h,
         baseline |-> << <<first_with(h, PointDefault)[1], cv.baseline[1][2]>>,
                         <<last_with(h, PointDefault)[1], cv.baseline[2][2]>> >>,
         current |-> value,
         min |-> IF cv.history.len = 0 THEN value ELSE Min2(cv.min, value),
         max |-> Max2(cv.max, value)]

\* An update that leaves the left end of the baseline where it was.
ChartValues_update_leftfixed(cv, value) ==
    LET h == push(cv.history,
                  <<last_with(cv.history, PointDefault)[1] + 1, value>>)
        mm == ScanMinMax(as_slice(h), 1, F64Max, 0)
    IN  [history |-> h,
         baseline |-> << cv.baseline[1],
                         <<last_with(h, PointDefault)[1], cv.baseline[2][2]>> >>,
         current |-> value, min |-> mm.min, max |-> mm.max]

\* An update that numbers the new point from the oldest retained point.
ChartValues_update_firstx(cv, value) ==
    LET h == push(cv.history,
                  <<first_with(cv.history, PointDefault)[1] + 1, value>>)
        mm == ScanMinMax(as_slice(h), 1, F64Max, 0)
    IN  [history |-> h,
         baseline |-> << <<first_with(h, PointDefault)[1], cv.baseline[1][2]>>,
                         <<last_with(h, PointDefault)[1], cv.baseline[2][2]>> >>,
         current |-> value, min |-> mm.min, max |-> mm.max]

\* ChartValues::update.
ChartValues_update(cv, value) ==
    LET h == push(cv.history,
                  <<last_with(cv.history, PointDefault)[1] + 1, value>>)
        mm == ScanMinMax(as_slice(h), 1, F64Max, 0)
    IN  [history |-> h,
         baseline |-> << <<first_with(h, PointDefault)[1], cv.baseline[1][2]>>,
                         <<last_with(h, PointDefault)[1], cv.baseline[2][2]>> >>,
         current |-> value, min |-> mm.min, max |-> mm.max]

\* The views as show_progress creates them.
InitValuesVars ==
    /\ fps_view = SparklineValues_new
    /\ speed_view = SparklineValues_new
    /\ \E b \in Baselines : bitrate_view = ChartValues_new(b)
    /\ fpsFed = <<>>
    /\ bitrateFed = <<>>
    /\ spark = NoSparkline

\* The views of a specification that is about something else.
InitValuesIdle ==
    /\ fps_view = SparklineValues_new
    /\ speed_view = SparklineValues_new
    /\ bitrate_view = ChartValues_new(0)
    /\ fpsFed = <<>>
    /\ bitrateFed = <<>>
    /\ spark = NoSparkline

\* fps.update(value).  MaxUpdates bounds the updates of both views together.
FpsUpdate ==
    /\ Len(fpsFed) + Len(bitrateFed) < MaxUpdates
    /\ \E value \in SparkInputs :
         /\ fps_view' = SparklineValues_update(fps_view, value)
         /\ fpsFed' = Append(fpsFed, value)
    /\ UNCHANGED <<speed_view, bitrate_view, bitrateFed, spark>>
    /\ UNCHANGED otherThanValues

\* fps.create(area) for an area of any width up to MaxWidth.
FpsCreate ==
    /\ \E width \in 0..MaxWidth :
         spark' = SparklineValues_create(fps_view, width)
    /\ UNCHANGED <<fps_view, speed_view, bitrate_view, fpsFed, bitrateFed>>
    /\ UNCHANGED otherThanValues

\* bitrate.update(value).
BitrateUpdate ==
    /\ Len(fpsFed) + Len(bitrateFed) < MaxUpdates
    /\ \E value \in ChartInputs :
         /\ bitrate_view' = ChartValues_update(bitrate_view, value)
         /\ bitrateFed' = Append(bitrateFed, value)
    /\ UNCHANGED <<fps_view, speed_view, fpsFed, spark>>
    /\ UNCHANGED otherThanValues

\* Texts, as UTF-8 bytes, and the Formats a probe or a snapshot can hold.
S_a == <<97>>
S_mkv == <<109, 107, 118>>
S_Matroska == <<77, 97, 116>>
S_encoder == <<101, 110, 99>>
S_title == <<116, 105>>
S_x_y == <<120, 32, 121>>

TagMaps ==
    { <<>>,
      << <<S_title, S_x_y>> >>,
      << <<S_encoder, <<>> >>, <<S_title, S_x_y>> >> }

StartTimes ==
    { [secs |-> 0, nanos |-> 0],
      [secs |-> 0, nanos |-> -500000000],
      [secs |-> 1, nanos |-> 999999999] }

Sizes == {300, 70000}

Formats ==
    { [filename |-> S_a, nb_streams |-> 2, nb_programs |-> 0,
       format_name |-> S_mkv, format_long_name |-> long,
       start_time |-> st, duration |-> [secs |-> 90, nanos |-> 250000000],
       size |-> sz, bit_rate |-> 128000, probe_score |-> 100, tags |-> tg] :
      long \in {<<>>, <<S_Matroska>>}, st \in StartTimes, sz \in Sizes,
      tg \in TagMaps }

\* What ffprobe::run returns in the model when it succeeds.
ProbeFormats ==
    {f \in Formats : /\ f.format_long_name = <<>> /\ f.tags = <<>>
                     /\ f.start_time = [secs |-> 0, nanos |-> 0]}

(***************************************************************************)
(* main.rs: the live branch of run, and show_progress                      *)
(***************************************************************************)
\* A time::Duration of the model: whole seconds and nanoseconds; the clock
\* of the model ticks in half seconds.
Elapsed(t) == [secs |-> t \div 2, nanos |-> (t % 2) * 500000000]

DurLE(a, b) == a.secs < b.secs \/ (a.secs = b.secs /\ a.nanos <= b.nanos)

ResRunning == [kind |-> "running"]
ResOk(h) == [kind |-> "Ok", history |-> h]
ResErr(why, msg) == [kind |-> "Err", why |-> why, msg |-> msg]

NoArgs ==
    [input |-> <<>>, load_stats |-> FALSE, save_stats |-> FALSE,
     show_stats |-> FALSE]
NoStats == [kind |-> "nothing"]
NoChart == [kind |-> "none"]
NoEvent == [kind |-> "none"]

\* show_stats in a specification that never enters it.
InitStatsIdle ==
    /\ selection = 0
    /\ bitrate_stats = NoStats
    /\ fps_stats = NoStats
    /\ speed_stats = NoStats
    /\ chart = NoChart
    /\ event = NoEvent

\* main and the flags in a specification that is about something else.
InitMainIdle ==
    /\ args = NoArgs
    /\ term = "none"
    /\ ffprobe = "none"
    /\ shown = NoStats
    /\ reported = ResRunning
    /\ InitStatsIdle

InitRunVars ==
    /\ pc = "run_probe"
    /\ history = <<>>
    /\ timestamp = DurationZero
    /\ result = ResRunning

\* show_progress returns res: its parameter `ffmpeg` goes out of scope.
SpReturn(res) ==
    /\ DropIter
    /\ result' = res
    /\ pc' = "sp_returned"
    /\ UNCHANGED <<history, timestamp>>

\* How ffprobe::run fails: Command::output fails, the exit status is not
\* success (the message is ffprobe's standard error), or the output is no
\* JSON of a Report.
ProbeFailures == {"io error", "ffprobe stderr", "invalid json"}

\* A run that notes the failure of the probe and carries on.
RunProbe_carryon ==
    /\ pc = "run_probe"
    /\ \/ /\ pc' = "run_spawn"
          /\ ffprobe' \in ProbeFormats
          /\ UNCHANGED result
       \/ \E msg \in ProbeFailures :
            /\ pc' = "run_spawn"
            /\ result' = ResErr("probe", msg)
            /\ UNCHANGED ffprobe
    /\ UNCHANGED <<iterVars, history, timestamp>>
    /\ UNCHANGED otherThanRunAndProbe

\* run: ffprobe::run(&args.input)?
RunProbe ==
    /\ pc = "run_probe"
    /\ \/ /\ pc' = "run_spawn"
          /\ ffprobe' \in ProbeFormats
          /\ UNCHANGED result
       \/ \E msg \in ProbeFailures :
            /\ pc' = "run_returned"
            /\ result' = ResErr("probe", msg)
            /\ UNCHANGED ffprobe
    /\ UNCHANGED <<iterVars, history, timestamp>>
    /\ UNCHANGED otherThanRunAndProbe

\* run: ffmpeg::spawn(&args.args, args.overwrite)?
RunSpawn ==
    /\ pc = "run_spawn"
    /\ \/ /\ child' = "Some"
          /\ proc' = ProcSpawned
          /\ ipc' = "idle"
          /\ pc' = "sp_clear"
          /\ UNCHANGED result
       \/ /\ pc' = "run_returned"
          /\ result' = ResErr("spawn", "spawn failed")
          /\ UNCHANGED <<child, proc, ipc>>
    /\ UNCHANGED <<acc, iret, stream, emitted, history, timestamp>>
    /\ UNCHANGED otherThanRun

\* show_progress: terminal.draw(|f| f.render_widget(Clear, f.size()))?
SpClear ==
    /\ pc = "sp_clear"
    /\ \/ pc' = "sp_draw" /\ UNCHANGED <<iterVars, history, timestamp, result>>
       \/ SpReturn(ResErr("draw", "io error"))
    /\ UNCHANGED otherThanRun

\* show_progress: the terminal.draw(..)? at the head of the loop.
SpDraw ==
    /\ pc = "sp_draw"
    /\ \/ pc' = "sp_poll" /\ UNCHANGED <<iterVars, history, timestamp, result>>
       \/ SpReturn(ResErr("draw", "io error"))
    /\ UNCHANGED otherThanRun

\* show_progress: while event::poll(250ms)? { if let Event::Key = read()? .. }
SpPoll ==
    /\ pc = "sp_poll"
    /\ \/ \* poll gave false: no event within the timeout
          pc' = "sp_next" /\ UNCHANGED <<iterVars, history, timestamp, result>>
       \/ \* an event that is none of q, Esc, Ctrl-C: poll again
          UNCHANGED <<pc, iterVars, history, timestamp, result>>
       \/ \* poll or read failed
          SpReturn(ResErr("event", "io error"))
       \/ \* q, Esc or Ctrl-C
          SpReturn(ResErr("cancelled", "encoding cancelled by user"))
    /\ UNCHANGED otherThanRun

\* show_progress: ffmpeg.next() is called.
SpNext ==
    /\ pc = "sp_next"
    /\ NextCall
    /\ pc' = "sp_in_next"
    /\ UNCHANGED <<history, timestamp, result>>
    /\ UNCHANGED otherThanRun

\* fps.update(progress.fps); bitrate.update(progress.bitrate as f64);
\* speed.update(progress.speed).
ViewsUpdate(progress) ==
    /\ fps_view' = SparklineValues_update(fps_view, progress.fps)
    /\ bitrate_view' = ChartValues_update(bitrate_view, progress.bitrate)
    /\ speed_view' = SparklineValues_update(speed_view, progress.speed)
    /\ fpsFed' = Append(fpsFed, progress.fps)
    /\ bitrateFed' = Append(bitrateFed, progress.bitrate)
    /\ UNCHANGED spark

\* A handler that puts the new entry in front of the history.
SpHandle_prepend ==
    /\ pc = "sp_in_next"
    /\ ipc = "idle"
    /\ CASE iret.kind = "Ok" ->
              \E t \in 0..MaxTime :
                  /\ DurLE(timestamp, Elapsed(t))
                  /\ timestamp' = Elapsed(t)
                  /\ history' = <<<<Elapsed(t), iret.progress>>>> \o history
                  /\ ViewsUpdate(iret.progress)
                  /\ pc' = "sp_draw"
                  /\ UNCHANGED <<iterVars, result>>
         [] iret.kind = "Err" ->
              SpReturn(ResErr(iret.why, iret.msg)) /\ UNCHANGED valVars
         [] iret.kind = "None" ->
              SpReturn(ResOk(history)) /\ UNCHANGED valVars
    /\ UNCHANGED otherThanRunAndViews

\* show_progress: the match on what next() returned, and for a record the
\* rest of the loop body.
SpHandle ==
    /\ pc = "sp_in_next"
    /\ ipc = "idle"
    /\ CASE iret.kind = "Ok" ->
              \* progress = res?; timestamp = start_time.elapsed();
              \* history.push((timestamp, progress.clone()))
              \E t \in 0..MaxTime :
                  /\ DurLE(timestamp, Elapsed(t))
                  /\ timestamp' = Elapsed(t)
                  /\ history' = Append(history, <<Elapsed(t), iret.progress>>)
                  /\ ViewsUpdate(iret.progress)
                  /\ pc' = "sp_draw"
                  /\ UNCHANGED <<iterVars, result>>
         [] iret.kind = "Err" ->
              SpReturn(ResErr(iret.why, iret.msg)) /\ UNCHANGED valVars
         [] iret.kind = "None" ->
              SpReturn(ResOk(history)) /\ UNCHANGED valVars
    /\ UNCHANGED otherThanRunAndViews

(***************************************************************************)
(* stats.rs: the snapshot codec.  A String is its UTF-8 bytes; the encoded *)
(* snapshot is a sequence of bytes.                                        *)
(***************************************************************************)
RECURSIVE LEBytes(_, _)
\* The n low bytes of v, least significant first.
LEBytes(v, n) == IF n = 0 THEN <<>> ELSE <<v % 256>> \o LEBytes(v \div 256, n - 1)

RECURSIVE FromLE(_)
FromLE(b) == IF b = <<>> THEN 0 ELSE b[1] + 256 * FromLE(Tail(b))

DecFail(p) == [ok |-> FALSE, val |-> 0, p |-> p]
DecOk(v, p) == [ok |-> TRUE, val |-> v, p |-> p]

\* The `?` of a decoder: go on with F on a decoded value, stop at an error.
AndThen(r, F(_)) == Bind(r, LAMBDA x : IF x.ok THEN F(x) ELSE DecFail(x.p))

\* bincode's variable-length encoding of an unsigned integer (the values of
\* the model are below 2^31, so the 8-byte form is never written).
varint_encode(v) ==
    IF v < 251 THEN <<v>>
    ELSE IF v < 65536 THEN <<251>> \o LEBytes(v, 2)
    ELSE <<252>> \o LEBytes(v, 4)

\* Its decoding as a u64 (maxTag = 253) or a u32 (maxTag = 252).
varint_decode(b, p, maxTag) ==
    IF p > Len(b) THEN DecFail(p)
    ELSE LET tag == b[p]
             n == CASE tag = 251 -> 2 [] tag = 252 -> 4 [] tag = 253 -> 8
                    [] OTHER -> 0
         IN  IF tag < 251 THEN DecOk(tag, p + 1)
             ELSE IF tag > maxTag \/ p + n > Len(b) THEN DecFail(p)
             ELSE DecOk(FromLE(SubSeq(b, p + 1, p + n)), p + 1 + n)

\* Signed integers are zigzag-coded and then written as unsigned ones.
zigzag(n) == IF n >= 0 THEN 2 * n ELSE -2 * n - 1
unzigzag(u) == IF u % 2 = 0 THEN u \div 2 ELSE -((u + 1) \div 2)

encode_i64(n) == varint_encode(zigzag(n))
encode_i32(n) == varint_encode(zigzag(n))

decode_i64(b, p) ==
    AndThen(varint_decode(b, p, 253), LAMBDA r :
        DecOk(unzigzag(r.val), r.p))

encode_u8(v) == <<v>>
decode_u8(b, p) == IF p > Len(b) THEN DecFail(p) ELSE DecOk(b[p], p + 1)

\* An f64 is written as the 8 bytes of its bit pattern; the bit pattern of a
\* decimal of the model is its sign, its scale and its digits.
encode_f64(x) == <<IF x.neg THEN 1 ELSE 0, x.f>> \o LEBytes(x.m, 6)
decode_f64(b, p) ==
    IF p + 7 > Len(b) THEN DecFail(p)
    ELSE DecOk([neg |-> b[p] = 1, m |-> FromLE(SubSeq(b, p + 2, p + 7)),
                f |-> b[p + 1]], p + 8)

\* String: the length, then the bytes, which must be UTF-8 (ASCII here).
encode_string(str) == varint_encode(Len(str)) \o str
decode_string(b, p) ==
    AndThen(varint_decode(b, p, 253), LAMBDA n :
        IF n.p + n.val - 1 > Len(b) THEN DecFail(p)
        ELSE Bind(SubSeq(b, n.p, n.p + n.val - 1), LAMBDA str :
                 IF \A i \in 1..Len(str) : str[i] < 128
                 THEN DecOk(str, n.p + n.val)
                 ELSE DecFail(p)))

\* Option<String>: None is <<>>, Some(s) is <<s>>.
encode_option_string(o) ==
    IF o = <<>> THEN <<0>> ELSE <<1>> \o encode_string(o[1])
decode_option_string(b, p) ==
    IF p > Len(b) THEN DecFail(p)
    ELSE IF b[p] = 0 THEN DecOk(<<>>, p + 1)
    ELSE IF b[p] = 1
         THEN AndThen(decode_string(b, p + 1), LAMBDA r :
                  DecOk(<<r.val>>, r.p))
    ELSE DecFail(p)

\* time::Duration + time::Duration.
DurationAdd(a, b) ==
    LET secs == a.secs + b.secs
        nanos == a.nanos + b.nanos
    IN  IF nanos >= 1000000000 \/ (secs < 0 /\ nanos > 0)
        THEN [secs |-> secs + 1, nanos |-> nanos - 1000000000]
        ELSE IF nanos <= -1000000000 \/ (secs > 0 /\ nanos < 0)
        THEN [secs |-> secs - 1, nanos |-> nanos + 1000000000]
        ELSE [secs |-> secs, nanos |-> nanos]

\* x / y and x % y of Rust: the quotient truncates toward zero.
TruncDiv(x, y) == IF x >= 0 THEN x \div y ELSE -((-x) \div y)
TruncRem(x, y) == x - y * TruncDiv(x, y)

\* Duration::seconds(s) and Duration::nanoseconds(n).
DurationSeconds(s) == [secs |-> s, nanos |-> 0]
DurationNanoseconds(n) ==
    [secs |-> TruncDiv(n, 1000000000), nanos |-> TruncRem(n, 1000000000)]

\* impl Encode for BincodeDuration: whole_seconds() as i64, then
\* subsec_nanoseconds() as i32.
BincodeDuration_encode(d) == encode_i64(d.secs) \o encode_i32(d.nanos)

\* A decoder that reads both numbers and keeps the whole seconds only.
BincodeDuration_decode_secs(b, p) ==
    AndThen(decode_i64(b, p), LAMBDA s :
    AndThen(decode_i64(b, s.p), LAMBDA n :
        DecOk(DurationSeconds(s.val), n.p)))

\* impl Decode for BincodeDuration: Duration::seconds(i64) +
\* Duration::nanoseconds(i64).
BincodeDuration_decode(b, p) ==
    AndThen(decode_i64(b, p), LAMBDA s :
    AndThen(decode_i64(b, s.p), LAMBDA n :
        DecOk(DurationAdd(DurationSeconds(s.val),
                          DurationNanoseconds(n.val)), n.p)))

\* Byte strings in the order of str's Ord: lexicographic.
RECURSIVE StrLess(_, _)
StrLess(a, b) ==
    IF b = <<>> THEN FALSE
    ELSE IF a = <<>> THEN TRUE
    ELSE IF a[1] # b[1] THEN a[1] < b[1]
    ELSE StrLess(Tail(a), Tail(b))

\* A BTreeMap<String, String> is the sequence of its (key, value) pairs in
\* key order.  BTreeMap::insert:
RECURSIVE MapInsert(_, _, _)
MapInsert(m, k, v) ==
    IF m = <<>> THEN <<<<k, v>>>>
    ELSE IF m[1][1] = k THEN <<<<k, v>>>> \o Tail(m)
    ELSE IF StrLess(k, m[1][1]) THEN <<<<k, v>>>> \o m
    ELSE <<m[1]>> \o MapInsert(Tail(m), k, v)

RECURSIVE encode_pairs(_)
encode_pairs(m) ==
    IF m = <<>> THEN <<>>
    ELSE encode_string(m[1][1]) \o encode_string(m[1][2]) \o encode_pairs(Tail(m))

encode_map(m) == varint_encode(Len(m)) \o encode_pairs(m)

RECURSIVE decode_pairs(_, _, _, _)
decode_pairs(b, p, n, m) ==
    IF n = 0 THEN DecOk(m, p)
    ELSE AndThen(decode_string(b, p), LAMBDA k :
         AndThen(decode_string(b, k.p), LAMBDA v :
             Bind(MapInsert(m, k.val, v.val), LAMBDA m2 :
                 decode_pairs(b, v.p, n - 1, m2))))

decode_map(b, p) ==
    AndThen(varint_decode(b, p, 253), LAMBDA n :
        decode_pairs(b, n.p, n.val, <<>>))

\* impl From<Format> for FormatV1.
FormatV1_from(f) ==
    [filename |-> f.filename, nb_streams |-> f.nb_streams,
     nb_programs |-> f.nb_programs, format_name |-> f.format_name,
     format_long_name |-> f.format_long_name, start_time |-> f.start_time,
     duration |-> f.duration, size |-> f.size, bit_rate |-> f.bit_rate,
     probe_score |-> f.probe_score, tags |-> f.tags]

\* impl From<FormatV1> for Format.
Format_from(f) ==
    [filename |-> f.filename, nb_streams |-> f.nb_streams,
     nb_programs |-> f.nb_programs, format_name |-> f.format_name,
     format_long_name |-> f.format_long_name, start_time |-> f.start_time,
     duration |-> f.duration, size |-> f.size, bit_rate |-> f.bit_rate,
     probe_score |-> f.probe_score, tags |-> f.tags]

\* impl From<Progress> for ProgressV1.
ProgressV1_from(q) ==
    [frame |-> q.frame, fps |-> q.fps, bitrate |-> q.bitrate,
     total_size |-> q.total_size, out_time_us |-> q.out_time_us,
     out_time_ms |-> q.out_time_ms, out_time |-> q.out_time,
     dup_frames |-> q.dup_frames, drop_frames |-> q.drop_frames,
     speed |-> q.speed]

\* impl From<ProgressV1> for Progress.
Progress_from(q) ==
    [frame |-> q.frame, fps |-> q.fps, bitrate |-> q.bitrate,
     total_size |-> q.total_size, out_time_us |-> q.out_time_us,
     out_time_ms |-> q.out_time_ms, out_time |-> q.out_time,
     dup_frames |-> q.dup_frames, drop_frames |-> q.drop_frames,
     speed |-> q.speed]

\* #[derive(Encode)] FormatV1: the fields in declaration order.
FormatV1_encode(f) ==
    encode_string(f.filename) \o varint_encode(f.nb_streams)
        \o varint_encode(f.nb_programs) \o encode_string(f.format_name)
        \o encode_option_string(f.format_long_name)
        \o BincodeDuration_encode(f.start_time)
        \o BincodeDuration_encode(f.duration)
        \o varint_encode(f.size) \o varint_encode(f.bit_rate)
        \o encode_u8(f.probe_score) \o encode_map(f.tags)

\* #[derive(Decode)] FormatV1.
FormatV1_decode(b, p) ==
    AndThen(decode_string(b, p), LAMBDA filename :
    AndThen(varint_decode(b, filename.p, 252), LAMBDA nb_streams :
    AndThen(varint_decode(b, nb_streams.p, 252), LAMBDA nb_programs :
    AndThen(decode_string(b, nb_programs.p), LAMBDA format_name :
    AndThen(decode_option_string(b, format_name.p), LAMBDA format_long_name :
    AndThen(BincodeDuration_decode(b, format_long_name.p), LAMBDA start_time :
    AndThen(BincodeDuration_decode(b, start_time.p), LAMBDA duration :
    AndThen(varint_decode(b, duration.p, 253), LAMBDA size :
    AndThen(varint_decode(b, size.p, 253), LAMBDA bit_rate :
    AndThen(decode_u8(b, bit_rate.p), LAMBDA probe_score :
    AndThen(decode_map(b, probe_score.p), LAMBDA tags :
        DecOk([filename |-> filename.val, nb_streams |-> nb_streams.val,
                    nb_programs |-> nb_programs.val,
                    format_name |-> format_name.val,
                    format_long_name |-> format_long_name.val,
                    start_time |-> start_time.val, duration |-> duration.val,
                    size |-> size.val, bit_rate |-> bit_rate.val,
                    probe_score |-> probe_score.val, tags |-> tags.val],
                   tags.p))))))))))))

\* #[derive(Encode)] ProgressV1.
ProgressV1_encode(q) ==
    varint_encode(q.frame) \o encode_f64(q.fps) \o varint_encode(q.bitrate)
        \o varint_encode(q.total_size) \o varint_encode(q.out_time_us)
        \o varint_encode(q.out_time_ms) \o BincodeDuration_encode(q.out_time)
        \o varint_encode(q.dup_frames) \o varint_encode(q.drop_frames)
        \o encode_f64(q.speed)

\* #[derive(Decode)] ProgressV1.
ProgressV1_decode(b, p) ==
    AndThen(varint_decode(b, p, 253), LAMBDA frame :
    AndThen(decode_f64(b, frame.p), LAMBDA fps :
    AndThen(varint_decode(b, fps.p, 253), LAMBDA bitrate :
    AndThen(varint_decode(b, bitrate.p, 253), LAMBDA total_size :
    AndThen(varint_decode(b, total_size.p, 253), LAMBDA out_time_us :
    AndThen(varint_decode(b, out_time_us.p, 253), LAMBDA out_time_ms :
    AndThen(BincodeDuration_decode(b, out_time_ms.p), LAMBDA out_time :
    AndThen(varint_decode(b, out_time.p, 253), LAMBDA dup_frames :
    AndThen(varint_decode(b, dup_frames.p, 253), LAMBDA drop_frames :
    AndThen(decode_f64(b, drop_frames.p), LAMBDA speed :
        DecOk([frame |-> frame.val, fps |-> fps.val,
                    bitrate |-> bitrate.val, total_size |-> total_size.val,
                    out_time_us |-> out_time_us.val,
                    out_time_ms |-> out_time_ms.val,
                    out_time |-> out_time.val, dup_frames |-> dup_frames.val,
                    drop_frames |-> drop_frames.val, speed |-> speed.val],
                   speed.p)))))))))))

\* Vec<(BincodeDuration, ProgressV1)>: the length, then the pairs.
RECURSIVE encode_entries(_)
encode_entries(h) ==
    IF h = <<>> THEN <<>>
    ELSE BincodeDuration_encode(h[1][1]) \o ProgressV1_encode(h[1][2])
             \o encode_entries(Tail(h))

RECURSIVE decode_entries(_, _, _, _)
decode_entries(b, p, n, h) ==
    IF n = 0 THEN DecOk(h, p)
    ELSE AndThen(BincodeDuration_decode(b, p), LAMBDA d :
         AndThen(ProgressV1_decode(b, d.p), LAMBDA q :
             Bind(Append(h, <<d.val, q.val>>), LAMBDA h2 :
                 decode_entries(b, q.p, n - 1, h2))))

\* impl From<&Stats> for Version.
Version_from(stats) ==
    [variant |-> "V1",
     import |-> FormatV1_from(stats.import),
     history |-> [i \in 1..Len(stats.history) |->
                     <<stats.history[i][1], ProgressV1_from(stats.history[i][2])>>]]

\* impl From<Version> for Stats.
Stats_from(v) ==
    [import |-> Format_from(v.import),
     history |-> [i \in 1..Len(v.history) |->
                     <<v.history[i][1], Progress_from(v.history[i][2])>>]]

\* #[derive(Encode)] Version: the variant index (V1 is 0), then its fields.
Version_encode(v) ==
    varint_encode(0) \o FormatV1_encode(v.import)
        \o varint_encode(Len(v.history)) \o encode_entries(v.history)

\* A decoder that reads the payload of any variant index as V1.
Version_decode_anyversion(b, p) ==
    AndThen(varint_decode(b, p, 252), LAMBDA variant :
    AndThen(FormatV1_decode(b, variant.p), LAMBDA import :
    AndThen(varint_decode(b, import.p, 253), LAMBDA n :
    AndThen(decode_entries(b, n.p, n.val, <<>>), LAMBDA h :
        DecOk([variant |-> "V1", import |-> import.val, history |-> h.val],
              h.p)))))

\* #[derive(Decode)] Version: any variant index but 0 is an error.
Version_decode(b, p) ==
    AndThen(varint_decode(b, p, 252), LAMBDA variant :
    IF variant.val # 0 THEN DecFail(p) ELSE
    AndThen(FormatV1_decode(b, variant.p), LAMBDA import :
    AndThen(varint_decode(b, import.p, 253), LAMBDA n :
    AndThen(decode_entries(b, n.p, n.val, <<>>), LAMBDA h :
        DecOk([variant |-> "V1", import |-> import.val, history |-> h.val],
              h.p)))))

\* GzEncoder / GzDecoder: a gzip member is a header, the deflated data and a
\* trailer.  The model keeps the framing and stores the data in one stored
\* block (its length first), followed by the length byte of the trailer.
GzHeader == <<31, 139, 8>>

GzEncode(data) ==
    GzHeader \o LEBytes(Len(data), 2) \o data \o <<Len(data) % 256>>

\* The bytes a reader of the GzDecoder gets before it meets an error or the
\* end: the header is checked before the first byte is handed out, and a
\* file cut short hands out what is there.  bincode stops reading at the end
\* of the value, so the trailer is not looked at.
GzDecode(file) ==
    LET h == Len(GzHeader)
    IN  IF Len(file) >= h + 2 /\ SubSeq(file, 1, h) = GzHeader
        THEN LET n == FromLE(SubSeq(file, h + 1, h + 2))
             IN  [ok |-> TRUE,
                  data |-> SubSeq(file, h + 3, Min2(h + 2 + n, Len(file)))]
        ELSE [ok |-> FALSE, data |-> <<>>]

\* The path of the snapshot: the input path with ".stats" appended.
StatsPath(input) == input \o <<".", "s", "t", "a", "t", "s">>

\* save, when nothing fails: the bytes written to the snapshot file.
save_bytes(stats) == GzEncode(Version_encode(Version_from(stats)))

\* A file of the model: whether it exists, and its bytes.
NoFile == [exists |-> FALSE, bytes |-> <<>>]
FileOf(bytes) == [exists |-> TRUE, bytes |-> bytes]

\* load on the snapshot file.
load_file(file) ==
    IF ~file.exists THEN [kind |-> "Err", why |-> "open"]
    ELSE Bind(GzDecode(file.bytes), LAMBDA gz :
         Bind(Version_decode(gz.data, 1), LAMBDA v :
             IF ~gz.ok THEN [kind |-> "Err", why |-> "gzip"]
             ELSE IF ~v.ok THEN [kind |-> "Err", why |-> "decode"]
             ELSE [kind |-> "Ok", stats |-> Stats_from(v.val)]))

\* The sessions of the model.
HistoryEntries ==
    { <<Elapsed(1), [ProgressDefault EXCEPT
                        !.frame = 10,
                        !.fps = [neg |-> FALSE, m |-> 24, f |-> 0],
                        !.out_time = [secs |-> 1, nanos |-> 500000000]]>>,
      <<Elapsed(2), [ProgressDefault EXCEPT
                        !.frame = 300,
                        !.bitrate = 1000000,
                        !.total_size = 70000,
                        !.out_time_us = 1500000,
                        !.speed = [neg |-> FALSE, m |-> 15, f |-> 1]]>> }

Histories == UNION {[1..n -> HistoryEntries] : n \in 0..MaxHist}

Sessions == {[import |-> f, history |-> h] : f \in Formats, h \in Histories}

Paths == {<<"a">>}
Files == {StatsPath(q) : q \in Paths}

InitCodecVars ==
    /\ session \in Sessions
    /\ fs = [f \in Files |-> NoFile]
    /\ savedOk = {}
    /\ loaded = [kind |-> "nothing"]

\* The codec of a specification that is about something else.
InitCodecIdle ==
    /\ session = [import |-> "none", history |-> <<>>]
    /\ fs = [f \in Files |-> NoFile]
    /\ savedOk = {}
    /\ loaded = [kind |-> "nothing"]

\* save(&session, input): File::create, encode, finish, flush.
Save ==
    \E input \in Paths :
        LET bytes == save_bytes(session)
        IN  \/ \* everything succeeded
               /\ fs' = [fs EXCEPT ![StatsPath(input)] = FileOf(bytes)]
               /\ savedOk' = savedOk \cup {input}
            \/ \* File::create failed
               UNCHANGED <<fs, savedOk>>
            \/ \* a write failed: the file was created and is cut short
               /\ fs' = [fs EXCEPT ![StatsPath(input)] =
                            FileOf(SubSeq(bytes, 1, Len(bytes) \div 2))]
               /\ savedOk' = savedOk \ {input}
    /\ UNCHANGED <<session, loaded>>
    /\ UNCHANGED otherThanCodec

\* load(input): File::open may fail; otherwise the file is decoded.
\* afterSave is a history variable: whether the last save to this path
\* succeeded.
Load ==
    /\ \E input \in Paths, opened \in BOOLEAN :
         loaded' = [kind |-> "load", input |-> input,
                    afterSave |-> input \in savedOk,
                    res |-> IF opened THEN load_file(fs[StatsPath(input)])
                            ELSE [kind |-> "Err", why |-> "open"]]
    /\ UNCHANGED <<session, fs, savedOk>>
    /\ UNCHANGED otherThanCodec

\* The position of the version tag in a snapshot file: the first byte of
\* the data.
VersionTagAt == Len(GzHeader) + 3

\* Something else leaves a file at the snapshot path: a snapshot of a later
\* version of the format (variant index 1), or a snapshot whose first byte
\* was overwritten, so that it is no gzip file.
Foreign ==
    /\ \E input \in Paths :
         LET bytes == save_bytes(session)
         IN  /\ \/ fs' = [fs EXCEPT ![StatsPath(input)] =
                             FileOf([bytes EXCEPT ![VersionTagAt] = 1])]
                \/ fs' = [fs EXCEPT ![StatsPath(input)] =
                             FileOf([bytes EXCEPT ![1] = 0])]
             /\ savedOk' = savedOk \ {input}
    /\ UNCHANGED <<session, loaded>>
    /\ UNCHANGED otherThanCodec

(***************************************************************************)
(* main.rs: main, and run around show_progress                             *)
(***************************************************************************)
\* run's Ok(()).
ResUnit == [kind |-> "Ok"]

\* The sessions a snapshot file of the model can hold before the program
\* starts.
MainSessions == {[import |-> f, history |-> h] : f \in ProbeFormats,
                                                 h \in Histories}

\* A file that is no snapshot.
BrokenFile == FileOf(<<0>>)

\* The program starts: any flags; in replay mode the snapshot file is
\* missing, broken or the snapshot of a session.
InitMainVars ==
    /\ args \in [input : Paths, load_stats : BOOLEAN, save_stats : BOOLEAN,
                 show_stats : BOOLEAN]
    /\ term = "none"
    /\ ffprobe = "none"
    /\ shown = NoStats
    /\ reported = ResRunning
    /\ InitStatsIdle
    /\ pc = "main_create"
    /\ history = <<>>
    /\ timestamp = DurationZero
    /\ result = ResRunning
    /\ session = [import |-> "none", history |-> <<>>]
    /\ fs \in [Files -> IF args.load_stats
                        THEN {NoFile, BrokenFile}
                                 \cup {FileOf(save_bytes(m)) : m \in MainSessions}
                        ELSE {NoFile}]
    /\ savedOk = {}
    /\ loaded = [kind |-> "nothing"]

\* A main that leaves at once when run fails.
MainDestroy_onok ==
    /\ pc = "run_returned"
    /\ pc' = "main_restored"
    /\ IF result.kind = "Ok" THEN term' \in {"restored", "stuck"}
       ELSE UNCHANGED term
    /\ UNCHANGED <<args, ffprobe, shown, reported>>
    /\ UNCHANGED <<iterVars, history, timestamp, result>>
    /\ UNCHANGED <<statVars, arrVars, codecVars, valVars>>

\* A start that runs the transcode whatever load_stats says.
MainCreate_live ==
    /\ pc = "main_create"
    /\ \/ /\ term' = "created"
          /\ pc' = "run_probe"
          /\ UNCHANGED reported
       \/ /\ term' \in {"none", "half"}
          /\ reported' = ResErr("terminal", "io error")
          /\ pc' = "main_returned"
    /\ UNCHANGED <<args, ffprobe, shown>>
    /\ UNCHANGED <<iterVars, history, timestamp, result>>
    /\ UNCHANGED <<statVars, arrVars, codecVars, valVars>>

\* main: create_terminal()?, then run up to the branch on args.load_stats.
\* create_terminal fails before anything was changed ("none") or with the
\* raw mode already on ("half"); main returns that error.
MainCreate ==
    /\ pc = "main_create"
    /\ \/ /\ term' = "created"
          /\ pc' = IF args.load_stats THEN "run_load" ELSE "run_probe"
          /\ UNCHANGED reported
       \/ /\ term' \in {"none", "half"}
          /\ reported' = ResErr("terminal", "io error")
          /\ pc' = "main_returned"
    /\ UNCHANGED <<args, ffprobe, shown>>
    /\ UNCHANGED <<iterVars, history, timestamp, result>>
    /\ UNCHANGED <<statVars, arrVars, codecVars, valVars>>

\* run: `if args.load_stats || args.show_stats { show_stats(..)?; } Ok(())`,
\* up to the call of show_stats.
RunTail ==
    IF args.load_stats \/ args.show_stats
    THEN pc' = "run_show" /\ UNCHANGED result
    ELSE pc' = "run_returned" /\ result' = ResUnit

\* run: stats::load(&args.input)?
RunLoad ==
    /\ pc = "run_load"
    /\ \E opened \in BOOLEAN :
         \E res \in {IF opened THEN load_file(fs[StatsPath(args.input)])
                     ELSE [kind |-> "Err", why |-> "open"]} :
            /\ loaded' = [kind |-> "load", input |-> args.input,
                          afterSave |-> args.input \in savedOk, res |-> res]
            /\ IF res.kind = "Ok"
               THEN session' = res.stats /\ RunTail
               ELSE /\ result' = ResErr("load", res.why)
                    /\ pc' = "run_returned"
                    /\ UNCHANGED session
    /\ UNCHANGED <<fs, savedOk, mainVars>>
    /\ UNCHANGED <<iterVars, history, timestamp>>
    /\ UNCHANGED <<statVars, arrVars, valVars>>

\* A run that saves what there is of the history when show_progress failed.
RunStats_saveany ==
    /\ pc = "sp_returned"
    /\ session' = [import |-> ffprobe, history |-> history]
    /\ IF args.save_stats
       THEN pc' = "run_save" /\ UNCHANGED result
       ELSE IF result.kind = "Err"
       THEN pc' = "run_returned" /\ UNCHANGED result
       ELSE RunTail
    /\ UNCHANGED <<fs, savedOk, loaded, mainVars>>
    /\ UNCHANGED <<iterVars, history, timestamp>>
    /\ UNCHANGED <<statVars, arrVars, valVars>>

\* run, once show_progress has returned: `let history = result?;`, the Stats
\* of the probe and the history, and the branch on args.save_stats.
RunStats ==
    /\ pc = "sp_returned"
    /\ IF result.kind = "Err"
       THEN pc' = "run_returned" /\ UNCHANGED <<result, session>>
       ELSE /\ session' = [import |-> ffprobe, history |-> result.history]
            /\ IF args.save_stats
               THEN pc' = "run_save" /\ UNCHANGED result
               ELSE RunTail
    /\ UNCHANGED <<fs, savedOk, loaded, mainVars>>
    /\ UNCHANGED <<iterVars, history, timestamp>>
    /\ UNCHANGED <<statVars, arrVars, valVars>>

\* run: stats::save(&stats, &args.input)?  As Save: it succeeds, or
\* File::create fails, or a write fails and leaves the file cut short.
RunSave ==
    /\ pc = "run_save"
    /\ \E bytes \in {save_bytes(session)} :
         \/ /\ fs' = [fs EXCEPT ![StatsPath(args.input)] = FileOf(bytes)]
            /\ savedOk' = savedOk \cup {args.input}
            /\ RunTail
         \/ /\ UNCHANGED <<fs, savedOk>>
            /\ result' = ResErr("save", "io error")
            /\ pc' = "run_returned"
         \/ /\ fs' = [fs EXCEPT ![StatsPath(args.input)] =
                         FileOf(SubSeq(bytes, 1, Len(bytes) \div 2))]
            /\ savedOk' = savedOk \ {args.input}
            /\ result' = ResErr("save", "io error")
            /\ pc' = "run_returned"
    /\ UNCHANGED <<session, loaded, mainVars>>
    /\ UNCHANGED <<iterVars, history, timestamp>>
    /\ UNCHANGED <<statVars, arrVars, valVars>>

\* run: show_stats(terminal, stats)?  It returns Ok(()) when the user
\* leaves, or the error of a draw or of event::read.
RunShowStats ==
    /\ pc = "run_show"
    /\ shown' = session
    /\ \/ result' = ResUnit
       \/ result' = ResErr("draw", "io error")
    /\ pc' = "run_returned"
    /\ UNCHANGED <<args, term, ffprobe, reported>>
    /\ UNCHANGED <<iterVars, history, timestamp>>
    /\ UNCHANGED <<statVars, arrVars, codecVars, valVars>>

\* main: destroy_terminal(terminal).ok() -- it restores the terminal or
\* fails on the way, and its Result is thrown away.
MainDestroy ==
    /\ pc = "run_returned"
    /\ pc' = "main_restored"
    /\ term' \in {"restored", "stuck"}
    /\ UNCHANGED <<args, ffprobe, shown, reported>>
    /\ UNCHANGED <<iterVars, history, timestamp, result>>
    /\ UNCHANGED <<statVars, arrVars, codecVars, valVars>>

\* main: `result`, the value of run, is what main returns.
MainReturn ==
    /\ pc = "main_restored"
    /\ pc' = "main_returned"
    /\ reported' = result
    /\ UNCHANGED <<args, term, ffprobe, shown>>
    /\ UNCHANGED <<iterVars, history, timestamp, result>>
    /\ UNCHANGED <<statVars, arrVars, codecVars, valVars>>

(***************************************************************************)
(* main.rs: show_stats, BitrateStats and OneLineStats                      *)
(***************************************************************************)
\* Duration::as_seconds_f64: seconds as f64 + nanoseconds as f64 / 1e9 (the
\* quotient is the f64 nearest to the decimal; the nanoseconds of the model
\* have at most 5 decimal places).
as_seconds_f64(d) ==
    F64Add(F64FromInt(d.secs),
           F64Of(F64Norm([neg |-> FALSE, m |-> d.nanos, f |-> 9])))

DigitChar(n) == CHOOSE c \in Digits : DigitVal(c) = n

\* format!("{:02}") of a whole number below 100.
Pad2(n) == <<DigitChar(n \div 10), DigitChar(n % 10)>>

\* format_duration of Duration::seconds_f64(label): the whole seconds of
\* the label (toward zero) as "HH:MM:SS".
format_duration(label) ==
    Bind(F64Trunc(label), LAMBDA d :
      Pad2(d \div 3600) \o <<":">> \o Pad2((d \div 60) % 60) \o <<":">>
          \o Pad2(d % 60))

\* The f64 constants of the tick labels.
F64Quarter == F64Of([neg |-> FALSE, m |-> 25, f |-> 2])
F64Half == F64Of([neg |-> FALSE, m |-> 5, f |-> 1])
F64ThreeQuarters == F64Of([neg |-> FALSE, m |-> 75, f |-> 2])

\* [0.0, x_max * 0.25, x_max * 0.50, x_max * 0.75, x_max] formatted.
XLabels(x_max) ==
    << format_duration(F64PosZero),
       format_duration(F64Mul(x_max, F64Quarter)),
       format_duration(F64Mul(x_max, F64Half)),
       format_duration(F64Mul(x_max, F64ThreeQuarters)),
       format_duration(x_max) >>

\* [y_min, y_min + y_diff * 0.25, .. * 0.50, .. * 0.75, y_max] with
\* y_diff = y_max - y_min.
YTicks(y_min, y_max) ==
    Bind(F64Sub(y_max, y_min), LAMBDA y_diff :
      << y_min,
         F64Add(y_min, F64Mul(y_diff, F64Quarter)),
         F64Add(y_min, F64Mul(y_diff, F64Half)),
         F64Add(y_min, F64Mul(y_diff, F64ThreeQuarters)),
         y_max >>)

\* The inspect closure of both constructors over the points from i on.
RECURSIVE InspectBounds(_, _, _)
InspectBounds(points, i, b) ==
    IF i > Len(points) THEN b
    ELSE InspectBounds(points, i + 1,
             [x_max |-> f64_max(b.x_max, points[i][1]),
              y_min |-> f64_min(b.y_min, points[i][2]),
              y_max |-> f64_max(b.y_max, points[i][2])])

\* let mut x_max = 0.0; let mut y_min = f64::MAX; let mut y_max = 0.0;
BoundsStart == [x_max |-> F64PosZero, y_min |-> f64_MAX, y_max |-> F64PosZero]

\* The labelers of show_stats: format!("{fps:.1}") and
\* format!("{speed:.2}x"), and BitrateStats' own
\* format!("{:.1} kbits/s", label / 1000.0).
FpsLabeler(label) == [num |-> FormatFixed(label, 1), suffix |-> <<>>]
SpeedLabeler(label) == [num |-> FormatFixed(label, 2), suffix |-> S_x]
BitrateLabeler(label) ==
    [num |-> FormatFixed(F64DivWhole(label, 1000), 1),
     suffix |-> <<" ">> \o S_kbits]

\* OneLineStats::new; `which` names the labeler it is given.
OneLineStats_new(points, which) ==
    Bind(InspectBounds(points, 1, BoundsStart), LAMBDA b :
      Bind(YTicks(b.y_min, b.y_max), LAMBDA ticks :
        [data |-> points,
         x_max |-> b.x_max,
         x_labels |-> XLabels(b.x_max),
         y_min |-> b.y_min,
         y_max |-> b.y_max,
         y_labels |-> AsSeq([i \in 1..5 |->
                                IF which = "fps" THEN FpsLabeler(ticks[i])
                                ELSE SpeedLabeler(ticks[i])], 5)]))

F64NineTenths == F64Of([neg |-> FALSE, m |-> 9, f |-> 1])
F64ElevenTenths == F64Of([neg |-> FALSE, m |-> 11, f |-> 1])

\* BitrateStats::new.
BitrateStats_new(baseline, points) ==
    Bind(InspectBounds(points, 1, BoundsStart), LAMBDA b :
      Bind(f64_max(f64_min(b.y_min, F64Mul(baseline, F64NineTenths)),
                   F64PosZero), LAMBDA y_min :
        Bind(f64_max(b.y_max, F64Mul(baseline, F64ElevenTenths)),
             LAMBDA y_max :
          Bind(YTicks(y_min, y_max), LAMBDA ticks :
            [baseline_data |-> << <<F64PosZero, baseline>>,
                                  <<b.x_max, baseline>> >>,
             bitrate_data |-> points,
             x_max |-> b.x_max,
             x_labels |-> XLabels(b.x_max),
             y_min |-> y_min,
             y_max |-> y_max,
             y_labels |-> AsSeq([i \in 1..5 |-> BitrateLabeler(ticks[i])],
                                5)]))))

\* BitrateStats::create and OneLineStats::create: the datasets, bounds and
\* labels of the Chart.
BitrateStats_create(s) ==
    [kind |-> "Chart",
     datasets |-> <<s.baseline_data, s.bitrate_data>>,
     x_bounds |-> <<F64PosZero, s.x_max>>, x_labels |-> s.x_labels,
     y_bounds |-> <<s.y_min, s.y_max>>, y_labels |-> s.y_labels]

OneLineStats_create(s) ==
    [kind |-> "Chart",
     datasets |-> <<s.data>>,
     x_bounds |-> <<F64PosZero, s.x_max>>, x_labels |-> s.x_labels,
     y_bounds |-> <<s.y_min, s.y_max>>, y_labels |-> s.y_labels]

\* The three series show_stats maps out of stats.history.
BitratePoints(h) ==
    AsSeq([i \in 1..Len(h) |->
              <<as_seconds_f64(h[i][1]), F64FromInt(h[i][2].bitrate)>>],
          Len(h))
FpsPoints(h) ==
    AsSeq([i \in 1..Len(h) |->
              <<as_seconds_f64(h[i][1]), F64Of(h[i][2].fps)>>], Len(h))
SpeedPoints(h) ==
    AsSeq([i \in 1..Len(h) |->
              <<as_seconds_f64(h[i][1]), F64Of(h[i][2].speed)>>], Len(h))

\* The ffprobe bit rates of the sessions show_stats is handed.
BitRates == {0, 128000}

\* The Stats show_stats can be handed.
StatsSessions ==
    {[m EXCEPT !.import.bit_rate = b] : m \in MainSessions, b \in BitRates}

\* What event::read can return: a key with or without Ctrl, or an event
\* that is no key.
KeyCodes == {"q", "c", "Esc", "Left", "Right", "Enter"}
Events ==
    {[kind |-> "Key", code |-> k, ctrl |-> c] : k \in KeyCodes, c \in BOOLEAN}
        \cup {[kind |-> "Resize"]}

\* show_stats is entered with a Stats of the model.
InitStatsVars ==
    /\ shown \in StatsSessions
    /\ pc = "show_stats"
    /\ result = ResRunning
    /\ selection = 0
    /\ bitrate_stats = NoStats
    /\ fps_stats = NoStats
    /\ speed_stats = NoStats
    /\ chart = NoChart
    /\ event = NoEvent

\* show_stats up to its loop: selection = 0, the three statistics, and
\* terminal.draw(Clear)?.
ShowStatsEnter ==
    /\ pc = "show_stats"
    /\ selection' = 0
    /\ bitrate_stats' = BitrateStats_new(F64FromInt(shown.import.bit_rate),
                                         BitratePoints(shown.history))
    /\ fps_stats' = OneLineStats_new(FpsPoints(shown.history), "fps")
    /\ speed_stats' = OneLineStats_new(SpeedPoints(shown.history), "speed")
    /\ \/ pc' = "stats_draw" /\ UNCHANGED result
       \/ pc' = "stats_returned" /\ result' = ResErr("draw", "io error")
    /\ UNCHANGED <<chart, event>>
    /\ UNCHANGED <<iterVars, history, timestamp, mainVars>>
    /\ UNCHANGED <<arrVars, codecVars, valVars>>

\* The chart of the draw closure: match selection { 0 => .., 1 => ..,
\* 2 => .., _ => unreachable!() }.
ChartOf(sel) ==
    CASE sel = 0 -> BitrateStats_create(bitrate_stats)
      [] sel = 1 -> OneLineStats_create(fps_stats)
      [] sel = 2 -> OneLineStats_create(speed_stats)
      [] OTHER -> [kind |-> "panic"]

\* The loop of show_stats: terminal.draw(..)? renders the tabs and the
\* selected chart, or fails.
StatsDraw ==
    /\ pc = "stats_draw"
    /\ \/ /\ chart' = ChartOf(selection)
          /\ pc' = IF chart'.kind = "panic" THEN "stats_panicked"
                   ELSE "stats_read"
          /\ UNCHANGED result
       \/ /\ pc' = "stats_returned"
          /\ result' = ResErr("draw", "io error")
          /\ UNCHANGED chart
    /\ UNCHANGED <<selection, bitrate_stats, fps_stats, speed_stats, event>>
    /\ UNCHANGED <<iterVars, history, timestamp, mainVars>>
    /\ UNCHANGED <<arrVars, codecVars, valVars>>

\* A loop body whose Right adds one without the upper limit.
StatsRead_unclamped ==
    /\ pc = "stats_read"
    /\ \/ /\ event' = [kind |-> "io error"]
          /\ pc' = "stats_returned"
          /\ result' = ResErr("event", "io error")
          /\ UNCHANGED selection
       \/ \E ev \in Events :
            /\ event' = ev
            /\ IF ev.kind # "Key"
               THEN pc' = "stats_draw" /\ UNCHANGED <<selection, result>>
               ELSE IF ev.code \in {"q", "Esc"} \/ (ev.code = "c" /\ ev.ctrl)
               THEN /\ pc' = "stats_returned"
                    /\ result' = ResUnit
                    /\ UNCHANGED selection
               ELSE /\ pc' = "stats_draw"
                    /\ selection' =
                         CASE ev.code = "Left" -> saturating_sub(selection, 1)
                           [] ev.code = "Right" -> selection + 1
                           [] OTHER -> selection
                    /\ UNCHANGED result
    /\ UNCHANGED <<bitrate_stats, fps_stats, speed_stats, chart>>
    /\ UNCHANGED <<iterVars, history, timestamp, mainVars>>
    /\ UNCHANGED <<arrVars, codecVars, valVars>>

\* The loop of show_stats: event::read()? and the match on the key code.
StatsRead ==
    /\ pc = "stats_read"
    /\ \/ /\ event' = [kind |-> "io error"]
          /\ pc' = "stats_returned"
          /\ result' = ResErr("event", "io error")
          /\ UNCHANGED selection
       \/ \E ev \in Events :
            /\ event' = ev
            /\ IF ev.kind # "Key"
               THEN pc' = "stats_draw" /\ UNCHANGED <<selection, result>>
               ELSE IF ev.code \in {"q", "Esc"} \/ (ev.code = "c" /\ ev.ctrl)
               THEN /\ pc' = "stats_returned"
                    /\ result' = ResUnit
                    /\ UNCHANGED selection
               ELSE /\ pc' = "stats_draw"
                    /\ selection' =
                         CASE ev.code = "Left" -> saturating_sub(selection, 1)
                           [] ev.code = "Right" -> Min2(2, selection + 1)
                           [] OTHER -> selection
                    /\ UNCHANGED result
    /\ UNCHANGED <<bitrate_stats, fps_stats, speed_stats, chart>>
    /\ UNCHANGED <<iterVars, history, timestamp, mainVars>>
    /\ UNCHANGED <<arrVars, codecVars, valVars>>

(***************************************************************************)
(* Specifications                                                          *)
(***************************************************************************)
\* The iterator and its consumer in a specification that is about
\* something else.
InitIterIdle ==
    /\ child = "None"
    /\ proc = ProcNone
    /\ ipc = "absent"
    /\ acc = ProgressDefault
    /\ iret = RetNothing
    /\ stream = <<>>
    /\ emitted = <<>>
    /\ pc = "idle"
    /\ history = <<>>
    /\ timestamp = DurationZero
    /\ result = ResRunning
    /\ InitMainIdle

InitArray ==
    /\ InitArrayVars
    /\ InitIterIdle
    /\ InitCodecIdle
    /\ InitValuesIdle

NextArray ==
    \/ ArrPush
    \/ ArrFirst
    \/ ArrLast
    \/ ArrAsSlice

\* The ring buffer: an Array of any capacity up to MaxCap under push and its
\* three readers.
SpecArray == InitArray /\ [][NextArray]_vars

InitIter ==
    /\ InitIterVars
    /\ pc = "generic"
    /\ history = <<>>
    /\ timestamp = DurationZero
    /\ result = ResRunning
    /\ InitMainIdle
    /\ InitArrayIdle
    /\ InitCodecIdle
    /\ InitValuesIdle

NextIter ==
    \/ GenNext
    \/ GenDrop
    \/ ReadLine
    \/ ReadEof
    \/ ReadErr

\* ProgressIter under any consumer.
SpecIter == InitIter /\ [][NextIter]_vars

NextParse ==
    \/ GenNext
    \/ ReadField

\* ProgressIter on a child that writes one block of fields and closes its
\* output.
SpecParse == InitIter /\ [][NextParse]_vars

Init ==
    /\ child = "None"
    /\ proc = ProcNone
    /\ ipc = "absent"
    /\ acc = ProgressDefault
    /\ iret = RetNothing
    /\ stream = <<>>
    /\ emitted = <<>>
    /\ InitRunVars
    /\ InitMainIdle
    /\ InitArrayIdle
    /\ InitCodecIdle
    /\ InitValuesVars

Next ==
    \/ RunProbe
    \/ RunSpawn
    \/ SpClear
    \/ SpDraw
    \/ SpPoll
    \/ SpNext
    \/ ReadLine
    \/ ReadEof
    \/ ReadErr
    \/ SpHandle

\* A live run: ProgressIter under show_progress.
Spec == Init /\ [][Next]_vars

NextCodec ==
    \/ Save
    \/ Load
    \/ Foreign

InitCodec ==
    /\ InitCodecVars
    /\ InitArrayIdle
    /\ InitIterIdle
    /\ InitValuesIdle

InitValues ==
    /\ InitValuesVars
    /\ InitArrayIdle
    /\ InitIterIdle
    /\ InitCodecIdle

NextValues ==
    \/ FpsUpdate
    \/ FpsCreate
    \/ BitrateUpdate

\* The views under any sequence of updates.
SpecValues == InitValues /\ [][NextValues]_vars

InitMain ==
    /\ child = "None"
    /\ proc = ProcNone
    /\ ipc = "absent"
    /\ acc = ProgressDefault
    /\ iret = RetNothing
    /\ stream = <<>>
    /\ emitted = <<>>
    /\ InitMainVars
    /\ InitArrayIdle
    /\ InitValuesVars

NextMain ==
    \/ MainCreate
    \/ RunLoad
    \/ RunProbe
    \/ RunSpawn
    \/ SpClear
    \/ SpDraw
    \/ SpPoll
    \/ SpNext
    \/ ReadRunLine
    \/ ReadEof
    \/ ReadErr
    \/ SpHandle
    \/ RunStats
    \/ RunSave
    \/ RunShowStats
    \/ MainDestroy
    \/ MainReturn

\* The program from main to its return, replaying a snapshot or running the
\* transcode.
SpecMain == InitMain /\ [][NextMain]_vars

InitStats ==
    /\ child = "None"
    /\ proc = ProcNone
    /\ ipc = "absent"
    /\ acc = ProgressDefault
    /\ iret = RetNothing
    /\ stream = <<>>
    /\ emitted = <<>>
    /\ history = <<>>
    /\ timestamp = DurationZero
    /\ args = NoArgs
    /\ term = "created"
    /\ ffprobe = "none"
    /\ reported = ResRunning
    /\ InitStatsVars
    /\ InitArrayIdle
    /\ InitCodecIdle
    /\ InitValuesIdle

NextStats ==
    \/ ShowStatsEnter
    \/ StatsDraw
    \/ StatsRead

\* The statistics screen: show_stats on any Stats of the model under any
\* sequence of events.
SpecStats == InitStats /\ [][NextStats]_vars

\* The snapshot codec: save and load on the snapshot file of an input path,
\* which something else can write as well.
SpecCodec == InitCodec /\ [][NextCodec]_vars


(***************************************************************************)
(* Properties of ProgressIter                                              *)
(***************************************************************************)
\* The lines of LineText by what they are, read off the texts themselves.
SentinelIds == {7, 8, 9}
SkipIds == {10, 11, 12}
MalformedIds == {3, 5, 6}
SetsField == [i \in {1, 2, 4} |->
                 CASE i = 1 -> "frame" [] i = 2 -> "fps" [] i = 4 -> "out_time"]
SetsValue == [i \in {1, 2, 4} |->
                 CASE i = 1 -> 10
                   [] i = 2 -> [neg |-> FALSE, m |-> 24, f |-> 0]
                   [] i = 4 -> [secs |-> 1, nanos |-> 500000000]]
Fields == DOMAIN ProgressDefault

SentinelsUpTo(n) == Cardinality({i \in 1..n : stream[i] \in SentinelIds})

\* The lines of the epoch of the j-th record: after the sentinel of the
\* record before, before its own.
EpochOf(j) ==
    {i \in 1..Len(stream) :
        /\ i < emitted[j].at
        /\ (j > 1 => i > emitted[j - 1].at)}

(* C3: the iterator yields exactly one record per `progress` sentinel line
   read, whatever the sentinel's value (continue, end, empty), the j-th
   record at the j-th sentinel, and no record without a sentinel. *)
C3_OneRecordPerSentinel ==
    /\ Len(emitted) = SentinelsUpTo(Len(stream))
    /\ \A j \in 1..Len(emitted) :
         /\ emitted[j].at \in 1..Len(stream)
         /\ stream[emitted[j].at] \in SentinelIds
         /\ SentinelsUpTo(emitted[j].at) = j
    /\ (iret.kind = "Ok" =>
          /\ emitted # <<>>
          /\ iret.progress = emitted[Len(emitted)].progress)

C3_Witness ==
    /\ Len(emitted) = 3
    /\ {stream[emitted[j].at] : j \in 1..3} = SentinelIds
    /\ iret.kind = "Ok"

(* C4: a record holds only values of lines read between the sentinel before
   and its own: a field no line of the epoch sets is at its zero default,
   also when the epoch before set it, and a field that is set has the value
   of a line of its own epoch. *)
C4_RecordFromOwnEpoch ==
    \A j \in 1..Len(emitted) : \A f \in Fields :
        LET setters == {i \in EpochOf(j) :
                           stream[i] \in DOMAIN SetsField
                           /\ SetsField[stream[i]] = f}
            v == emitted[j].progress[f]
        IN  /\ (setters = {} => v = ProgressDefault[f])
            /\ (v # ProgressDefault[f] =>
                  \E i \in setters : v = SetsValue[stream[i]])

C4_Witness ==
    /\ Len(emitted) = 2
    /\ stream = <<1, 7, 8>>
    /\ emitted[1].progress.frame = 10
    /\ emitted[2].progress = ProgressDefault


\* The step that reads one more line, and the line it reads.
ReadsLine == Len(stream') = Len(stream) + 1
LineRead == stream'[Len(stream')]

(* C5: a line without "=" (a blank line included) and a line with an
   unrecognized key are skipped: reading one changes no field of the record
   being accumulated, emits no record, returns nothing to the caller and
   leaves the iterator reading. *)
C5_SkippedLinesChangeNothing ==
    [][ReadsLine /\ LineRead \in SkipIds =>
          /\ acc' = acc
          /\ emitted' = emitted
          /\ iret' = iret
          /\ ipc = "reading" /\ ipc' = "reading"
          /\ child' = child /\ proc' = proc]_vars

C5_Witness ==
    /\ stream = <<2, 10, 12>>
    /\ acc.fps = SetsValue[2]
    /\ ipc = "reading"
    /\ emitted = <<>>

(* C6: a malformed value on a recognized key makes next() return a failure,
   not a record, and the live run stops there: it is the last line read,
   show_progress returns that failure, and every record emitted and every
   history entry comes from before it. *)
C6_MalformedValueHalts ==
    \A i \in 1..Len(stream) : stream[i] \in MalformedIds =>
        /\ i = Len(stream)
        /\ iret = RetErr("parse", "parse error")
        /\ ipc \in {"idle", "gone"}
        /\ pc \in {"sp_in_next", "sp_returned"}
        /\ (pc = "sp_returned" => result = ResErr("parse", "parse error"))
        /\ \A j \in 1..Len(emitted) : emitted[j].at < i
        /\ Len(history) = Len(emitted)
        /\ \A j \in 1..Len(history) : history[j][2] = emitted[j].progress

C6_Witness ==
    /\ stream = <<1, 7, 3>>
    /\ pc = "sp_returned"
    /\ result = ResErr("parse", "parse error")
    /\ Len(history) = 1
    /\ history[1][2].frame = 10

\* The step in which next() meets the end of the child's output.
MeetsEof ==
    /\ ipc = "reading" /\ ipc' = "idle"
    /\ stream' = stream
    /\ proc' # proc

(* C7: at end of input next() waits for the child; when the wait gives an
   exit status, a non-zero one yields a failure whose message is the child's
   standard-error text, a zero one ends the iteration (None); no record is
   emitted and the child is no longer held. *)
C7_EofChecksExitStatus ==
    [][MeetsEof =>
          /\ proc'.waited
          /\ child' = "None"
          /\ emitted' = emitted
          /\ (proc'.state = "reaped" /\ proc'.status # 0 =>
                iret' = RetErr("exit", proc'.stderr))
          /\ (proc'.state = "reaped" /\ proc'.status = 0 =>
                iret' = RetNone)]_vars

C7_Witness ==
    /\ proc.state = "reaped"
    /\ proc.status = 1
    /\ proc.stderr = "Conversion failed!"
    /\ iret = RetErr("exit", "Conversion failed!")
    /\ emitted # <<>>

(* C8: on every way out of a live run, once the ProgressIter is gone the
   child has been waited for or has been sent a kill signal. *)
C8_ChildWaitedOrKilled ==
    /\ (ipc = "gone" => proc.waited \/ proc.killSent)
    /\ (pc = "sp_returned" => ipc = "gone")
    /\ (ipc = "gone" /\ ~proc.waited => proc.state # "running")

C8_Witness ==
    /\ pc = "sp_returned"
    /\ result = ResErr("cancelled", "encoding cancelled by user")
    /\ proc.killSent
    /\ ~proc.waited
    /\ emitted # <<>>

(* C9: a child that was sent the kill signal has also been reaped (waited
   for) once the ProgressIter is gone. *)
C9_KilledChildReaped ==
    ipc = "gone" /\ proc.killSent => proc.state = "reaped"


(***************************************************************************)
(* Properties of the snapshot codec                                        *)
(***************************************************************************)
(* C10: a load of the path of a successful save never fails to decode, and
   the session it returns equals the saved one in every field: the import
   format with its tag map of any size and its long name present or absent, and the
   history with the same entries in the same order. *)
C10_SaveLoadRoundTrip ==
    loaded.kind = "load" /\ loaded.afterSave =>
        /\ loaded.res.kind = "Err" => loaded.res.why = "open"
        /\ loaded.res.kind = "Ok" =>
             /\ loaded.res.stats = session
             /\ loaded.res.stats.import.tags = session.import.tags
             /\ loaded.res.stats.import.format_long_name
                    = session.import.format_long_name
             /\ Len(loaded.res.stats.history) = Len(session.history)
             /\ \A i \in 1..Len(session.history) :
                    loaded.res.stats.history[i] = session.history[i]

C10_Witness ==
    /\ loaded.kind = "load" /\ loaded.afterSave
    /\ loaded.res.kind = "Ok"
    /\ Len(session.import.tags) = 2
    /\ session.import.format_long_name # <<>>
    /\ session.import.start_time.nanos < 0
    /\ Len(session.history) = 2
    /\ session.history[1] # session.history[2]
    /\ loaded.res.stats.history = session.history


(***************************************************************************)
(* Properties of the views                                                 *)
(***************************************************************************)
\* The points the chart retains, and the y values handed to update that
\* are still in the window.
ChartPoints == as_slice(bitrate_view.history)
ChartWindow == LastN(bitrateFed, ChartCap)

(* C11: after any sequence of ChartValues::update calls, also one longer
   than the capacity, min and max are the least and the greatest y of the
   retained window, which holds the last ChartCap values handed in; a value
   that was evicted no longer counts. *)
C11_ChartMinMaxOverWindow ==
    bitrateFed # <<>> =>
        /\ Len(ChartPoints) = Len(ChartWindow)
        /\ \A i \in 1..Len(ChartWindow) : ChartPoints[i][2] = ChartWindow[i]
        /\ \E i \in 1..Len(ChartWindow) : bitrate_view.min = ChartWindow[i]
        /\ \A i \in 1..Len(ChartWindow) : bitrate_view.min <= ChartWindow[i]
        /\ \E i \in 1..Len(ChartWindow) : bitrate_view.max = ChartWindow[i]
        /\ \A i \in 1..Len(ChartWindow) : bitrate_view.max >= ChartWindow[i]

\* The largest value handed in (2) was evicted from the window.
C11_Witness ==
    /\ bitrateFed = <<2, 0, 1, 1>>
    /\ bitrate_view.min = 0
    /\ bitrate_view.max = 1

\* The samples fps.update has stored so far: (value * 100).round() as u64.
FpsSamples == [i \in 1..Len(fpsFed) |-> F64Times100RoundAsU64(fpsFed[i])]

(* C12: SparklineValues.max never decreases from one update to the next
   and is always the largest sample stored so far (0 before the first),
   samples already evicted from the window included. *)
C12_SparkMaxIsRunningMax ==
    /\ [](/\ fps_view.max >= 0
          /\ (fpsFed # <<>> =>
                \E i \in 1..Len(fpsFed) : fps_view.max = FpsSamples[i])
          /\ (fpsFed = <<>> => fps_view.max = 0)
          /\ \A i \in 1..Len(fpsFed) : fps_view.max >= FpsSamples[i])
    /\ [][fps_view'.max >= fps_view.max]_vars

\* The largest sample (150, of 1.5) has left the window of the sparkline.
C12_Witness ==
    /\ Len(fpsFed) = SparkCap + 1
    /\ FpsSamples[1] = 150
    /\ \A i \in 2..Len(fpsFed) : FpsSamples[i] < 150
    /\ fps_view.max = 150
    /\ \A i \in 1..fps_view.history.len : fps_view.history.buf[i] < 150

(* C13: after every ChartValues::update the first baseline point has the x
   of the first retained point and the second the x of the last retained
   point, and both keep the height given to new. *)
C13_BaselineSpansWindow ==
    /\ [](/\ bitrate_view.baseline[1][2] \in Baselines
          /\ bitrate_view.baseline[2][2] = bitrate_view.baseline[1][2]
          /\ (bitrateFed # <<>> =>
                /\ bitrate_view.baseline[1][1] = ChartPoints[1][1]
                /\ bitrate_view.baseline[2][1]
                       = ChartPoints[Len(ChartPoints)][1]))
    /\ [][/\ bitrate_view'.baseline[1][2] = bitrate_view.baseline[1][2]
          /\ bitrate_view'.baseline[2][2] = bitrate_view.baseline[2][2]]_vars

\* The window has moved on: the baseline starts right of the first point
\* ever added.
C13_Witness ==
    /\ Len(bitrateFed) > ChartCap
    /\ bitrate_view.baseline[1][1] > 1
    /\ bitrate_view.baseline[2][1] = Len(bitrateFed)
    /\ bitrate_view.baseline[1][2] = 5

\* The x of the newest retained point, 0 (the default point) when there is
\* none.
NewestX(cv) ==
    IF cv.history.len = 0 THEN 0 ELSE cv.history.buf[cv.history.len][1]

(* C20: every ChartValues::update appends a point whose x is one more than
   the x of the newest point retained before (0, the default, when the view
   was empty), so the x values of the retained points always go up in steps
   of one. *)
C20_ChartXStepsByOne ==
    /\ [](\A i \in 1..(Len(ChartPoints) - 1) :
             ChartPoints[i + 1][1] = ChartPoints[i][1] + 1)
    /\ [][bitrateFed' # bitrateFed =>
             NewestX(bitrate_view') = NewestX(bitrate_view) + 1]_vars

C20_Witness ==
    /\ Len(bitrateFed) = ChartCap + 1
    /\ ChartPoints[1][1] = 2
    /\ ChartPoints[Len(ChartPoints)][1] = ChartCap + 1


\* The file a load step reads, and what the step returns.
FileRead == fs[StatsPath(loaded'.input)]

(* C16: load returns an error, and no session with it, whenever the file
   cannot be opened, is no gzip file, carries a version tag other than that
   of V1, or is damaged in any other way; a session is only ever returned
   from a file that is exactly the encoding of that session. *)
C16_LoadFailsHard ==
    [][loaded' # loaded =>
          /\ loaded'.res.kind \in {"Ok", "Err"}
          /\ (loaded'.res.kind = "Err" =>
                DOMAIN loaded'.res = {"kind", "why"})
          /\ (~FileRead.exists => loaded'.res.kind = "Err")
          /\ (FileRead.exists /\ SubSeq(FileRead.bytes, 1, Len(GzHeader))
                                     # GzHeader
                => loaded'.res.kind = "Err")
          /\ (FileRead.exists /\ FileRead.bytes[VersionTagAt] # 0
                => loaded'.res.kind = "Err")
          /\ (FileRead.exists /\ FileRead.bytes # save_bytes(session)
                => loaded'.res.kind = "Err")
          /\ (loaded'.res.kind = "Ok" =>
                FileRead.bytes = save_bytes(loaded'.res.stats))]_vars

\* A load met a well-formed gzip file whose version tag is 1.
C16_Witness ==
    /\ loaded.kind = "load"
    /\ fs[StatsPath(loaded.input)].exists
    /\ fs[StatsPath(loaded.input)].bytes[VersionTagAt] = 1
    /\ SubSeq(fs[StatsPath(loaded.input)].bytes, 1, Len(GzHeader)) = GzHeader
    /\ loaded.res = [kind |-> "Err", why |-> "decode"]
    /\ session.history # <<>>


(***************************************************************************)
(* Properties of the live run                                              *)
(***************************************************************************)
(* C14: in a live run the history has one (elapsed time, record) entry per
   record the parser emitted, in the order of emission and with elapsed
   times that never go down (the newest record is appended before next() is
   called again); a step only ever appends one entry and leaves the entries
   before it as they are. *)
C14_HistoryFollowsEmission ==
    /\ [](/\ Len(history) <= Len(emitted)
          /\ Len(emitted) <= Len(history) + 1
          /\ (Len(history) < Len(emitted) =>
                pc = "sp_in_next" /\ iret.kind = "Ok")
          /\ \A j \in 1..Len(history) :
                history[j][2] = emitted[j].progress
          /\ \A j \in 1..(Len(history) - 1) :
                DurLE(history[j][1], history[j + 1][1]))
    /\ [][/\ Len(history') \in {Len(history), Len(history) + 1}
          /\ SubSeq(history', 1, Len(history)) = history]_vars

C14_Witness ==
    /\ Len(history) = 2
    /\ stream = <<1, 7, 8>>
    /\ history[1][2].frame = 10
    /\ history[2][2] = ProgressDefault
    /\ history[1][1] # history[2][1]
    /\ pc = "sp_draw"

(* C15: when a live run fails after records were appended to the history,
   what show_progress hands to run still holds that history. *)
C15_PartialHistoryKept ==
    pc = "sp_returned" /\ result.kind = "Err" /\ history # <<>> =>
        /\ "history" \in DOMAIN result
        /\ result.history = history

(* C17: when the probe fails, run returns that error at once: no transcoder
   process has been spawned, no line read, no record emitted or appended,
   and nothing happens after. *)
C17_ProbeFailureAbortsFirst ==
    /\ [](result.kind = "Err" /\ result.why = "probe" =>
            /\ pc = "run_returned"
            /\ result.msg \in ProbeFailures
            /\ proc = ProcNone
            /\ child = "None" /\ ipc = "absent"
            /\ stream = <<>> /\ emitted = <<>> /\ history = <<>>
            /\ fpsFed = <<>> /\ bitrateFed = <<>>)
    /\ [][~(result.kind = "Err" /\ result.why = "probe")]_vars

C17_Witness ==
    /\ pc = "run_returned"
    /\ result = ResErr("probe", "invalid json")
    /\ proc.state = "none"


(***************************************************************************)
(* Further properties of the ring buffer                                   *)
(***************************************************************************)
(* C18: while an Array built with new(d) is empty, and always when its
   capacity is zero, first() and last() return d, the default the caller
   gave. *)
C18_EmptyReadsGiveCallerDefault ==
    as_slice(arr) = <<>> => first(arr) = arrDefault /\ last(arr) = arrDefault

(* C19: the length of an Array is never above its capacity, which never
   changes; the length never goes down; a push below capacity appends, a
   push into a full buffer drops the oldest element and appends; first(),
   last() and as_slice() leave the Array as it is. *)
C19_LengthWithinCapacity ==
    /\ [](/\ arr.len \in 0..arr.N
          /\ Len(arr.buf) = arr.N
          /\ arr.N \in 0..MaxCap)
    /\ [][/\ arr'.N = arr.N
          /\ arr'.len >= arr.len
          /\ (arrRet' # arrRet => arr' = arr)
          /\ (pushed' # pushed /\ arr.N > 0 =>
                as_slice(arr') =
                    Append(IF arr.len < arr.N THEN as_slice(arr)
                           ELSE Tail(as_slice(arr)),
                           pushed'[Len(pushed')]))]_vars

\* A full buffer of capacity >= 2 after an eviction, just read.
C19_Witness ==
    /\ arr.N >= 2
    /\ arr.len = arr.N
    /\ Len(pushed) = arr.N + 2
    /\ arrRet.op = "last"
    /\ arrRet.val = pushed[Len(pushed)]

(***************************************************************************)
(* Properties of the decoding of field values                              *)
(***************************************************************************)
\* The lines of a block by what they say, read off the texts themselves:
\* the field a line sets and the value its text denotes (a bitrate in
\* bits per second, a time as a Duration).
DecodesField ==
    [i \in BlockIds |->
        CASE i = 1 -> "frame" [] i = 2 -> "fps"
          [] i \in {13, 14, 15} -> "bitrate"
          [] i \in {16, 17} -> "speed"
          [] i \in {18, 19} -> "out_time"
          [] i = 20 -> "out_time_us"]
DecodesValue ==
    [i \in BlockIds |->
        CASE i = 1 -> 10
          [] i = 2 -> [neg |-> FALSE, m |-> 24, f |-> 0]
          [] i = 13 -> 1000000
          [] i = 14 -> 32300
          [] i = 15 -> 1500
          [] i = 16 -> [neg |-> FALSE, m |-> 15, f |-> 1]
          [] i = 17 -> [neg |-> FALSE, m |-> 2, f |-> 0]
          [] i = 18 -> [secs |-> 1, nanos |-> 0]
          [] i = 19 -> [secs |-> 61, nanos |-> 1000]
          [] i = 20 -> 61000001]

\* The lines of the block that set field f.
BlockSetters(f) == {k \in 1..Len(stream) :
                       stream[k] \in BlockIds /\ DecodesField[stream[k]] = f}

(* C21: a block of recognized field lines followed by one sentinel yields
   exactly one record, and each field of the record is the value its line
   denotes (zero when the block has no line for it): a bitrate is the number
   before an optional `kbits/s` times 1000, cut to a whole number, a speed
   the number before an optional `x`. *)
C21_BlockDecoded ==
    /\ Len(emitted) = Cardinality({k \in 1..Len(stream) : stream[k] = 7})
    /\ \A j \in 1..Len(emitted) : \A f \in Fields :
         emitted[j].progress[f] =
            IF BlockSetters(f) = {} THEN ProgressDefault[f]
            ELSE DecodesValue[stream[CHOOSE k \in BlockSetters(f) : TRUE]]

\* The same without the line `bitrate=32.3kbits/s`.
C21_BlockDecodedBut14 ==
    (\A k \in 1..Len(stream) : stream[k] # 14) => C21_BlockDecoded

C21_SpecExample ==
    /\ stream = <<1, 2, 13, 18, 7>>
    /\ iret = RetOk([ProgressDefault EXCEPT
                        !.frame = 10,
                        !.fps = [neg |-> FALSE, m |-> 24, f |-> 0],
                        !.bitrate = 1000000,
                        !.out_time = [secs |-> 1, nanos |-> 0]])

\* The out_time lines by their text HH:MM:SS.ffffff, as <<HH, MM, SS, ffffff>>,
\* and the out_time_us lines by their number.
OutTimeText == [i \in {18, 19} |->
                   CASE i = 18 -> <<0, 0, 1, 0>> [] i = 19 -> <<0, 1, 1, 1>>]
OutTimeUsText == [i \in {20} |-> 61000001]

\* The instant of an out_time line in microseconds.
OutTimeMicros(i) ==
    (OutTimeText[i][1] * 3600 + OutTimeText[i][2] * 60 + OutTimeText[i][3])
        * MicrosPerSec + OutTimeText[i][4]

(* C22: the out_time of a record is (HH*3600 + MM*60 + SS) seconds plus
   ffffff microseconds of the block's out_time line HH:MM:SS.ffffff; and when
   the block also has an out_time_us line for the same instant U, the out_time
   of the record is U microseconds, the out_time_us of the record. *)
C22_OutTimeConsistent ==
    \A j \in 1..Len(emitted) :
      \A k \in 1..Len(stream) :
        stream[k] \in DOMAIN OutTimeText =>
          LET t == OutTimeText[stream[k]]
              d == emitted[j].progress.out_time
          IN  /\ d.secs = t[1] * 3600 + t[2] * 60 + t[3]
              /\ d.nanos = t[4] * 1000
              /\ \A u \in 1..Len(stream) :
                   (/\ stream[u] \in DOMAIN OutTimeUsText
                    /\ OutTimeUsText[stream[u]] = OutTimeMicros(stream[k]))
                   => /\ emitted[j].progress.out_time_us
                           = OutTimeUsText[stream[u]]
                      /\ d.secs * MicrosPerSec + d.nanos \div 1000
                           = emitted[j].progress.out_time_us
                      /\ d.nanos % 1000 = 0

C22_Witness ==
    /\ Len(emitted) = 1
    /\ \E k, u \in 1..Len(stream) : stream[k] = 19 /\ stream[u] = 20
    /\ emitted[1].progress.out_time_us = 61000001
    /\ emitted[1].progress.out_time = [secs |-> 61, nanos |-> 1000]

\* The columns of an area of the given width inside its two border columns.
VisibleWidth(width) == IF width >= 2 THEN width - 2 ELSE 0

(* C24: SparklineValues::create never fails on its slice, and for an area of
   any width, 0 and 1 included, and any retained length the data of the
   Sparkline is the newest min(retained length, visible width) retained
   values in their order, the visible width being the area width less the
   two border columns and never below 0. *)
C24_WindowIsSuffix ==
    /\ [](spark.kind # "panic")
    /\ [][spark' # spark =>
            LET data == as_slice(fps_view.history)
                n == Min2(Len(data), VisibleWidth(spark'.width))
            IN  /\ spark'.kind = "Sparkline"
                /\ Len(spark'.data) = n
                /\ \A i \in 1..n :
                     spark'.data[i] = data[Len(data) - n + i]]_vars

C24_Witness ==
    /\ spark.kind = "Sparkline"
    /\ spark.width = 3
    /\ fps_view.history.len = 2
    /\ as_slice(fps_view.history) = <<1, 150>>
    /\ spark.data = <<150>>

(***************************************************************************)
(* Properties of the end of a ProgressIter                                 *)
(***************************************************************************)
\* The lines read since the last record (or since the start).
OpenEpoch ==
    {i \in 1..Len(stream) :
        emitted # <<>> => i > emitted[Len(emitted)].at}

\* The step of next() that finds the stream closed.
EofStep ==
    /\ ipc = "reading" /\ ipc' = "idle"
    /\ stream' = stream
    /\ child = "Some" /\ child' = "None"

(* C25: when the stream closes while the epoch has read fields but no
   sentinel, next() emits no record for it and returns no record: it goes
   straight to waiting for the child and returns None or the failure. *)
C25_PartialEpochDropped ==
    [][(EofStep /\ acc # ProgressDefault) =>
          /\ emitted' = emitted
          /\ iret'.kind \in {"None", "Err"}
          /\ (iret'.kind = "Err" => iret'.why \in {"exit", "wait"})
          /\ proc'.waits = proc.waits + 1]_vars

C25_Witness ==
    /\ stream = <<1, 2>>
    /\ acc.frame = 10
    /\ child = "None"
    /\ proc.waited
    /\ iret = RetNone
    /\ emitted = <<>>

(* C26: once next() has met the end of input, whatever it returned then,
   every later next() returns None: it does not read, does not wait again,
   emits nothing, and no failure is returned any more. *)
C26_TerminatedStaysTerminated ==
    /\ [](child = "None" => ipc # "reading")
    /\ [][(child = "None" /\ ipc = "idle") =>
            /\ stream' = stream
            /\ emitted' = emitted
            /\ proc' = proc
            /\ child' = "None"
            /\ ipc' \in {"idle", "gone"}
            /\ iret' \in {iret, RetNone}]_vars

C26_Witness ==
    /\ ipc = "idle"
    /\ child = "None"
    /\ proc.state = "reaped" /\ proc.status = 1 /\ proc.waits = 1
    /\ iret = RetNone

(* C27: over the life of a ProgressIter the child gets exactly one of the
   two ends, once: it is waited for when (and only when) next() meets the end
   of input, and killed by the drop otherwise; a child that was waited for is
   never sent the kill signal. *)
C27_OneFinalizerOnce ==
    /\ [](proc.waits + proc.kills <= 1)
    /\ [](ipc = "gone" => proc.waits + proc.kills = 1)
    /\ [](proc.waits > 0 => ~proc.killSent)
    /\ [][/\ (EofStep => proc'.waits = proc.waits + 1)
          /\ (proc'.waits # proc.waits => EofStep)
          /\ (proc'.kills # proc.kills =>
                ipc = "idle" /\ ipc' = "gone" /\ child = "Some")]_vars

C27_Witness ==
    /\ ipc = "gone"
    /\ proc.waits = 1
    /\ proc.kills = 0
    /\ Len(stream) = 2

\* The step of next() that returns a parse or read failure.
FailStep ==
    /\ ipc = "reading" /\ ipc' = "idle"
    /\ iret'.kind = "Err"
    /\ iret'.why \in {"parse", "read"}

(* C28: a parse or read failure returned by next() leaves the ProgressIter
   alive: the child is still held, neither waited for nor killed, no record
   is emitted from the fields the call had read, and the next call reads on
   after the failing line with an all-zero record. *)
C28_FailureIsNotTheEnd ==
    /\ [][FailStep =>
            /\ child' = "Some"
            /\ proc' = proc
            /\ proc'.state = "running"
            /\ emitted' = emitted]_vars
    /\ [][(ipc = "idle" /\ iret.kind = "Err" /\ iret.why \in {"parse", "read"}
           /\ ipc' = "reading") =>
            /\ acc' = ProgressDefault
            /\ stream' = stream]_vars
    /\ [](\A j \in 1..Len(emitted) : \A e \in EpochOf(j) :
             stream[e] \in MalformedIds =>
               \A f \in Fields :
                 (\A i \in EpochOf(j) :
                     (i > e /\ stream[i] \in DOMAIN SetsField)
                     => SetsField[stream[i]] # f)
                 => emitted[j].progress[f] = ProgressDefault[f])

C28_Witness ==
    /\ stream = <<1, 3, 7>>
    /\ child = "Some"
    /\ proc.state = "running"
    /\ Len(emitted) = 1
    /\ emitted[1].progress = ProgressDefault

(***************************************************************************)
(* Properties of main and run                                              *)
(***************************************************************************)
\* The positions of run in its live branch.
LivePositions ==
    {"run_probe", "run_spawn", "sp_clear", "sp_draw", "sp_poll", "sp_next",
     "sp_in_next", "sp_returned", "run_save"}

SnapshotFile == fs[StatsPath(args.input)]

(* C23: with load_stats the session comes from the snapshot file alone: run
   never enters its live branch (no probe, no transcoder process, no line
   read), no file is written, and what show_stats is handed is the session
   the file is the snapshot of; without a readable snapshot nothing is
   shown. *)
C23_ReplayOnlyReadsSnapshot ==
    /\ [](args.load_stats =>
            /\ pc \notin LivePositions
            /\ ffprobe = "none"
            /\ proc = ProcNone /\ ipc = "absent" /\ child = "None"
            /\ stream = <<>>
            /\ (shown # NoStats =>
                  \E m \in MainSessions :
                     /\ SnapshotFile = FileOf(save_bytes(m))
                     /\ shown = m)
            /\ (SnapshotFile \in {NoFile, BrokenFile} => shown = NoStats))
    /\ [][args.load_stats => fs' = fs]_vars

C23_Witness ==
    /\ args.load_stats
    /\ pc = "main_returned"
    /\ shown \in MainSessions
    /\ Len(shown.history) = 2
    /\ shown.history[1] # shown.history[2]
    /\ reported = ResUnit

(* C29: the snapshot file is written only by a live run with save_stats
   whose show_progress ended at the end of input with exit status 0, and
   then with the probe's Format and the whole history, which can be empty;
   a run that failed or was cancelled writes nothing, and a clean run with
   save_stats does not return Ok without the snapshot. *)
C29_SnapshotOnlyAfterCleanRun ==
    /\ [][fs' # fs =>
            /\ ~args.load_stats /\ args.save_stats
            /\ child = "None" /\ iret = RetNone
            /\ proc.state = "reaped" /\ proc.status = 0
            /\ session = [import |-> ffprobe, history |-> history]
            /\ Len(history) = Len(emitted)
            /\ \/ fs'[StatsPath(args.input)] = FileOf(save_bytes(session))
               \/ /\ result'.kind = "Err"
                  /\ args.input \notin savedOk']_vars
    /\ [](/\ ~args.load_stats /\ args.save_stats
          /\ pc \in {"run_show", "run_returned", "main_restored", "main_returned"}
          /\ proc.state = "reaped" /\ proc.status = 0
          /\ (result.kind = "Err" => result.why = "draw")
          => SnapshotFile = FileOf(save_bytes(session)))

C29_Witness ==
    /\ ~args.load_stats /\ args.save_stats
    /\ pc = "main_returned"
    /\ reported = ResUnit
    /\ emitted = <<>>
    /\ stream = <<1>>
    /\ proc.status = 0
    /\ \E f \in ProbeFormats :
         SnapshotFile = FileOf(save_bytes([import |-> f, history |-> <<>>]))

(* C30: once create_terminal has succeeded, main calls destroy_terminal
   after run has returned, whatever run returned, and only then returns; it
   returns the value of run, also when destroy_terminal failed. *)
C30_TerminalRestoredThenResult ==
    /\ [](pc = "main_returned" => term # "created")
    /\ [](pc = "main_returned" /\ term \in {"restored", "stuck"} =>
            reported = result /\ result.kind \in {"Ok", "Err"})
    /\ [][/\ (term = "created" /\ term' # term =>
                pc = "run_returned" /\ term' \in {"restored", "stuck"})
          /\ (reported' # reported /\ pc # "main_create" =>
                term \in {"restored", "stuck"} /\ reported' = result)]_vars

C30_Witness ==
    /\ pc = "main_returned"
    /\ term = "stuck"
    /\ reported = ResErr("cancelled", "encoding cancelled by user")
    /\ Len(emitted) = 1


(***************************************************************************)
(* C31                                                                     *)
(***************************************************************************)
\* The events that make show_stats return Ok(()).
LeavingEvents ==
    {ev \in Events : /\ ev.kind = "Key"
                     /\ \/ ev.code \in {"q", "Esc"}
                        \/ ev.code = "c" /\ ev.ctrl}

\* One turn of the loop of show_stats reads an event.
ReadsEvent == pc = "stats_read" /\ event' \in Events

\* C31: in the statistics screen the selected tab is always 0, 1 or 2 and
\* the draw never reaches unreachable!(); a Left at 0 leaves the selection
\* at 0 and otherwise moves it one down, a Right at 2 leaves it at 2 and
\* otherwise moves it one up, every other event leaves it unchanged; and
\* the screen is left with Ok(()) exactly on q, Esc and Ctrl-C.
C31_SelectionStaysInRange ==
    /\ [](selection \in 0..2 /\ pc # "stats_panicked")
    /\ [][ReadsEvent =>
            /\ selection' =
                 IF event'.kind = "Key" /\ event'.code = "Left"
                 THEN (IF selection = 0 THEN 0 ELSE selection - 1)
                 ELSE IF event'.kind = "Key" /\ event'.code = "Right"
                 THEN (IF selection = 2 THEN 2 ELSE selection + 1)
                 ELSE selection
            /\ (pc' = "stats_returned") = (event' \in LeavingEvents)
            /\ (pc' = "stats_returned" => result' = ResUnit)]_vars

\* The user went to the last tab, pressed Right once more, saw the speed
\* chart again and left with Ctrl-C.
C31_Witness ==
    /\ pc = "stats_returned"
    /\ result = ResUnit
    /\ selection = 2
    /\ chart = OneLineStats_create(speed_stats)
    /\ event = [kind |-> "Key", code |-> "c", ctrl |-> TRUE]
    /\ Len(shown.history) = 2


(***************************************************************************)
(* C32                                                                     *)
(***************************************************************************)
\* The largest x of the points, 0.0 when there is none.
RECURSIVE LargestX(_, _)
LargestX(points, i) ==
    IF i > Len(points) THEN F64PosZero
    ELSE f64_max(points[i][1], LargestX(points, i + 1))

\* The seconds an "HH:MM:SS" label stands for.
LabelSeconds(text) ==
    3600 * DigitsValue(SubSeq(text, 1, 2))
        + 60 * DigitsValue(SubSeq(text, 4, 5))
        + DigitsValue(SubSeq(text, 7, 8))

\* The number of label a is at most the number of label b.
LabelLe(a, b) ==
    IF a.num.units = <<>> /\ b.num.units = <<>> THEN TRUE
    ELSE IF a.num.neg # b.num.neg THEN a.num.neg
    ELSE IF a.num.neg THEN ~BigLess(a.num.units, b.num.units)
    ELSE ~BigLess(b.num.units, a.num.units)

\* The statistics s over the points: y_min <= y_max, every y within them,
\* x_max the largest x, five labels on each axis that never decrease.
WellFormed(s, points) ==
    /\ F64Le(s.y_min, s.y_max)
    /\ \A i \in 1..Len(points) :
         F64Le(s.y_min, points[i][2]) /\ F64Le(points[i][2], s.y_max)
    /\ s.x_max = LargestX(points, 1)
    /\ Len(s.x_labels) = 5 /\ Len(s.y_labels) = 5
    /\ \A i \in 1..4 :
         /\ LabelSeconds(s.x_labels[i]) <= LabelSeconds(s.x_labels[i + 1])
         /\ LabelLe(s.y_labels[i], s.y_labels[i + 1])

\* show_stats has built its statistics.
StatsBuilt == pc \in {"stats_draw", "stats_read", "stats_returned"}

\* C32: for any recorded history of non-negative values, the empty one
\* included, the statistics built by BitrateStats::new and by
\* OneLineStats::new have y_min <= y_max, every data value within
\* [y_min, y_max], x_max equal to the largest elapsed time (0 when empty)
\* and five tick labels that do not decrease from the lower to the upper
\* bound.
C32_ReplayStatsWellFormed ==
    StatsBuilt =>
        /\ WellFormed(bitrate_stats, bitrate_stats.bitrate_data)
        /\ WellFormed(fps_stats, fps_stats.data)
        /\ WellFormed(speed_stats, speed_stats.data)

\* The same for BitrateStats on every history, and for OneLineStats on the
\* histories that are not empty.
C32_WellFormedUnlessEmpty ==
    StatsBuilt =>
        /\ WellFormed(bitrate_stats, bitrate_stats.bitrate_data)
        /\ (shown.history # <<>> =>
                /\ WellFormed(fps_stats, fps_stats.data)
                /\ WellFormed(speed_stats, speed_stats.data))

\* A history of two different epochs has been turned into statistics.
C32_TwoEpochs ==
    /\ StatsBuilt
    /\ Len(shown.history) = 2
    /\ shown.history[1] # shown.history[2]
    /\ shown.import.bit_rate > 0

\* What OneLineStats::new makes of the empty history: y_min = f64::MAX
\* above y_max = 0.0, and labels that fall from f64::MAX to 0.
C32_EmptyHistoryBounds ==
    /\ StatsBuilt
    /\ shown.history = <<>>
    /\ fps_stats.y_min = f64_MAX
    /\ fps_stats.y_max = F64PosZero
    /\ fps_stats.y_labels[1].num = FormatFixed(f64_MAX, 1)
    /\ fps_stats.y_labels[5].num = FormatFixed(F64PosZero, 1)
    /\ speed_stats.y_min = f64_MAX
    /\ F64Le(bitrate_stats.y_min, bitrate_stats.y_max)

=============================================================================
